---------------------------- MODULE Spec2Model ----------------------------
(***************************************************************************)
(* Model of the extraction and metrics core of the market-scan dashboard:  *)
(*   utils/helpers.py      clean_text_content, extract_price_from_text,    *)
(*                         categorize_company, calculate_market_metrics,   *)
(*                         detect_outliers                                 *)
(*   modules/scraper.py    CompetitorScraper                               *)
(*   modules/data_manager.py  DataManager (the record store)               *)
(*                                                                         *)
(* Text is a sequence of one-character strings.  Prices are held in cents  *)
(* (every price the extractors produce has at most two decimals), an       *)
(* absent price (None / NaN) is NoPrice.                                   *)
(***************************************************************************)
EXTENDS Integers, Sequences, FiniteSets, TLC

VARIABLES
    pc,              \* "ready" before the function under study ran, "done" after
    text,            \* clean_text_content: the argument
    cleaned,         \* clean_text_content: the returned string
    price_text,      \* extract_price_from_text: the argument
    extracted_price, \* extract_price_from_text: the returned price
    arg_company_name,    \* categorize_company: first argument
    arg_content,         \* categorize_company: second argument
    category,        \* categorize_company: the returned category
    arg_data,            \* detect_outliers: the frame
    arg_column,          \* detect_outliers: the column name
    arg_method,          \* detect_outliers: the method
    outliers,        \* detect_outliers: the returned frame
    metrics_data,    \* calculate_market_metrics: the frame
    metrics,         \* calculate_market_metrics: the returned dictionary
    competitor_data, \* DataManager: st.session_state.competitor_data, the rows in order
    data_file,       \* DataManager: the file competitor_data.json
    now,             \* DataManager: the clock, datetime.now()
    result,          \* DataManager: what the last call returned
    last_call,       \* DataManager: the last call, [op, company]
    data_before,     \* DataManager: the rows as they were before the last call
    stats_data,      \* generate_summary_stats: the frame
    stats_now,       \* generate_summary_stats: the clock, datetime.now()
    stats,           \* generate_summary_stats: what the last call returned
    stats_prev,      \* generate_summary_stats: what the call before it returned
    market,          \* calculate_market_metrics on the same frame: the last result
    market_prev,      \* calculate_market_metrics on the same frame: the result before
    products_content, \* _extract_products: the argument
    products,         \* _extract_products: the returned list
    crm_text,        \* the text extracted from the page of a CRM vendor (extract_crm_data)
    crm_company_name, \* the company_name argument of extract_crm_data
    crm_data,         \* None, or the one record extract_crm_data returned
    batch,           \* the competitors of a batch run, in input order
    batch_i,         \* the number of competitors the loop has been through
    batch_fetched,   \* what the fetch of each of them gave, <<>> for a failure
    batch_rows,       \* crm_data of the CRM analysis loop, results of scrape_multiple_competitors
    raised,          \* DataManager: an exception left the last call
    fault            \* DataManager: the collaborator that failed during the last call

varsClean == <<text, cleaned>>
varsPrice == <<price_text, extracted_price>>
varsCategory == <<arg_company_name, arg_content, category>>
varsOutliers == <<arg_data, arg_column, arg_method, outliers>>
varsMetrics == <<metrics_data, metrics>>
varsStore == <<competitor_data, data_file, now, result, last_call, data_before>>

varsSummary == <<stats_data, stats_now, stats, stats_prev, market, market_prev>>

varsProducts == <<products_content, products>>

varsCrm == <<crm_text, crm_company_name, crm_data>>

varsBatch == <<batch, batch_i, batch_fetched, batch_rows>>

varsFault == <<raised, fault>>

vars == <<pc, varsClean, varsPrice, varsCategory, varsOutliers, varsMetrics, varsStore,
         varsSummary, varsProducts, varsCrm, varsBatch, varsFault>>

---------------------------------------------------------------------------
(* Sequences *)

RECURSIVE Concat(_)
Concat(ss) == IF ss = <<>> THEN <<>> ELSE Head(ss) \o Concat(Tail(ss))

Range(s) == {s[i] : i \in 1..Len(s)}

\* All sequences over S of length 0..n
SeqsUpTo(S, n) == UNION {[1..k -> S] : k \in 0..n}

---------------------------------------------------------------------------
(* Character classes of Python's re module, over the characters used here *)

Digits == {"0", "1", "2", "3", "4", "5", "6", "7", "8", "9"}

LowerLetters == {"a", "b", "c", "d", "e", "f", "g", "h", "i", "j", "k", "l", "m",
                 "n", "o", "p", "q", "r", "s", "t", "u", "v", "w", "x", "y", "z"}

UpperLetters == {"A", "B", "C", "D", "E", "F", "G", "H", "I", "J", "K", "L", "M",
                 "N", "O", "P", "Q", "R", "S", "T", "U", "V", "W", "X", "Y", "Z"}

Letters == LowerLetters \cup UpperLetters

\* \s
WhiteSpace == {" ", "\t", "\n"}

\* \w : letters, digits and the underscore
WordChars == Letters \cup Digits \cup {"_"}

---------------------------------------------------------------------------
(* Regular expressions as Python's re module matches them (backtracking,   *)
(* greedy).  A regular expression is a tuple:                              *)
(*   <<"set", S>>          one character of the set S                      *)
(*   <<"cat", <<r1..rn>>>> r1 r2 ... rn                                    *)
(*   <<"alt", <<r1..rn>>>> r1|r2|...|rn                                    *)
(*   <<"rep", r, lo, hi>>  r{lo,hi}, greedy; hi = -1 is no upper limit     *)
(*   <<"lazy", r, lo, hi>> r{lo,hi}?, the fewest repetitions first         *)
(*   <<"not", S>>          one character that is not in the set S          *)

Chr(S) == <<"set", S>>
Cat(rs) == <<"cat", rs>>
Alt(rs) == <<"alt", rs>>
Rep(r, lo, hi) == <<"rep", r, lo, hi>>
Opt(r) == Rep(r, 0, 1)
Star(r) == Rep(r, 0, -1)
Plus(r) == Rep(r, 1, -1)
Lazy(r, lo, hi) == <<"lazy", r, lo, hi>>
NotChr(S) == <<"not", S>>

\* a literal word, matched exactly
Lit(w) == Cat([i \in 1..Len(w) |-> Chr({w[i]})])

\* the characters a literal c matches under re.IGNORECASE
LowerSeq == <<"a", "b", "c", "d", "e", "f", "g", "h", "i", "j", "k", "l", "m",
              "n", "o", "p", "q", "r", "s", "t", "u", "v", "w", "x", "y", "z">>
UpperSeq == <<"A", "B", "C", "D", "E", "F", "G", "H", "I", "J", "K", "L", "M",
              "N", "O", "P", "Q", "R", "S", "T", "U", "V", "W", "X", "Y", "Z">>

AnyCase(c) == IF c \in Letters
              THEN LET k == CHOOSE j \in 1..26 : LowerSeq[j] = c \/ UpperSeq[j] = c
                   IN {LowerSeq[k], UpperSeq[k]}
              ELSE {c}

\* a literal word, matched case-insensitively
Word(w) == Cat([i \in 1..Len(w) |-> Chr(AnyCase(w[i]))])

\* Ends(r, s, i): the positions just after each way r matches s from
\* position i, in the order the backtracking matcher tries them
RECURSIVE Ends(_, _, _), EndsCat(_, _, _, _), EndsRep(_, _, _, _, _),
          EndsLazy(_, _, _, _, _)

Ends(r, s, i) ==
    CASE r[1] = "set" -> IF i <= Len(s) /\ s[i] \in r[2] THEN <<i + 1>> ELSE <<>>
      [] r[1] = "cat" -> EndsCat(r[2], 1, s, i)
      [] r[1] = "alt" -> Concat([k \in 1..Len(r[2]) |-> Ends(r[2][k], s, i)])
      [] r[1] = "rep" -> EndsRep(r[2], r[3], r[4], s, i)
      [] r[1] = "lazy" -> EndsLazy(r[2], r[3], r[4], s, i)
      [] r[1] = "not" -> IF i <= Len(s) /\ s[i] \notin r[2] THEN <<i + 1>> ELSE <<>>

EndsCat(rs, k, s, i) ==
    IF k > Len(rs) THEN <<i>>
    ELSE LET es == Ends(rs[k], s, i)
         IN Concat([j \in 1..Len(es) |-> EndsCat(rs, k + 1, s, es[j])])

EndsRep(r, lo, hi, s, i) ==
    LET es == IF hi = 0 THEN <<>> ELSE Ends(r, s, i)
        more == Concat([j \in 1..Len(es) |->
                    IF es[j] > i
                    THEN EndsRep(r, IF lo > 0 THEN lo - 1 ELSE 0,
                                 IF hi > 0 THEN hi - 1 ELSE hi, s, es[j])
                    ELSE <<>>])
    IN more \o (IF lo <= 0 THEN <<i>> ELSE <<>>)

EndsLazy(r, lo, hi, s, i) ==
    LET es == IF hi = 0 THEN <<>> ELSE Ends(r, s, i)
        more == Concat([j \in 1..Len(es) |->
                    IF es[j] > i
                    THEN EndsLazy(r, IF lo > 0 THEN lo - 1 ELSE 0,
                                  IF hi > 0 THEN hi - 1 ELSE hi, s, es[j])
                    ELSE <<>>])
    IN (IF lo <= 0 THEN <<i>> ELSE <<>>) \o more

\* A pattern with one capturing group: pre (group) post
Pat(pre, group, post) == [pre |-> pre, group |-> group, post |-> post]

\* the ways pattern p matches s from position i: <<group start, group end, match end>>
MatchesAt(p, s, i) ==
    LET e1 == Ends(p.pre, s, i)
    IN Concat([a \in 1..Len(e1) |->
         LET e2 == Ends(p.group, s, e1[a])
         IN Concat([b \in 1..Len(e2) |->
              LET e3 == Ends(p.post, s, e2[b])
              IN IF e3 = <<>> THEN <<>> ELSE << <<e1[a], e2[b], e3[1]>> >>])])

\* re.findall(p, s): the group of every non-overlapping match, left to right
RECURSIVE FindAllFrom(_, _, _)
FindAllFrom(p, s, i) ==
    IF i > Len(s) + 1 THEN <<>>
    ELSE LET ms == MatchesAt(p, s, i)
         IN IF ms = <<>> THEN FindAllFrom(p, s, i + 1)
            ELSE LET m == ms[1]
                 IN <<SubSeq(s, m[1], m[2] - 1)>>
                    \o FindAllFrom(p, s, IF m[3] > i THEN m[3] ELSE i + 1)

findall(p, s) == FindAllFrom(p, s, 1)

---------------------------------------------------------------------------
(* clean_text_content, helpers.py 63-85 *)

\* re.sub(r'\s+', ' ', text): every maximal run of whitespace becomes one space
RECURSIVE CollapseWhitespace(_)
CollapseWhitespace(s) ==
    IF s = <<>> THEN <<>>
    ELSE IF Head(s) \in WhiteSpace
         THEN IF Len(s) > 1 /\ s[2] \in WhiteSpace
              THEN CollapseWhitespace(Tail(s))
              ELSE <<" ">> \o CollapseWhitespace(Tail(s))
         ELSE <<Head(s)>> \o CollapseWhitespace(Tail(s))

\* the characters the class [^\w\s\.\,\!\?\$\%\-\(\)] does not match
KeptChars == WordChars \cup WhiteSpace \cup {".", ",", "!", "?", "$", "%", "-", "(", ")"}

\* re.sub(r'[^\w\s\.\,\!\?\$\%\-\(\)]', ' ', text): each other character becomes a space
ReplaceSpecial(s) == [i \in 1..Len(s) |-> IF s[i] \in KeptChars THEN s[i] ELSE " "]

RECURSIVE LStrip(_)
LStrip(s) == IF s # <<>> /\ Head(s) \in WhiteSpace THEN LStrip(Tail(s)) ELSE s

RECURSIVE RStrip(_)
RStrip(s) == IF s # <<>> /\ s[Len(s)] \in WhiteSpace
             THEN RStrip(SubSeq(s, 1, Len(s) - 1)) ELSE s

\* str.strip()
Strip(s) == RStrip(LStrip(s))

clean_text_content(t) ==
    IF t = <<>> THEN <<>>
    ELSE Strip(ReplaceSpecial(CollapseWhitespace(t)))

---------------------------------------------------------------------------
(* extract_price_from_text, helpers.py 87-123 *)

\* return None
NoPrice == -1

\* float(price_str) raised ValueError
ValueError == -2

\* 0.01 <= price <= 1000000, in cents
MinPriceCents == 1
MaxPriceCents == 100000000

\* Whole amounts are counted up to PriceSaturation and no further, so that
\* a long digit string stays a machine integer; every saturated amount is
\* above MaxPriceCents.
PriceSaturation == 10000000

DigitSeq == <<"0", "1", "2", "3", "4", "5", "6", "7", "8", "9">>
DigitVal(c) == (CHOOSE k \in 1..10 : DigitSeq[k] = c) - 1

Min(a, b) == IF a < b THEN a ELSE b

RECURSIVE DigitsValue(_, _)
DigitsValue(ds, acc) ==
    IF ds = <<>> THEN acc
    ELSE DigitsValue(Tail(ds), Min(acc * 10 + DigitVal(Head(ds)), PriceSaturation))

\* str.replace(',', '')
RECURSIVE RemoveCommas(_)
RemoveCommas(s) ==
    IF s = <<>> THEN <<>>
    ELSE (IF Head(s) = "," THEN <<>> ELSE <<Head(s)>>) \o RemoveCommas(Tail(s))

\* float(s) in cents for the literals digits, digits.digits; ValueError otherwise
float(s) ==
    LET dots == {i \in 1..Len(s) : s[i] = "."}
        dot == IF dots = {} THEN Len(s) + 1 ELSE CHOOSE i \in dots : TRUE
        whole == SubSeq(s, 1, dot - 1)
        frac == SubSeq(s, dot + 1, Len(s))
        frac2 == SubSeq(frac \o <<"0", "0">>, 1, 2)
    IN IF \/ Cardinality(dots) > 1
          \/ ~(Range(whole) \cup Range(frac) \subseteq Digits)
          \/ whole \o frac = <<>>
       THEN ValueError
       ELSE DigitsValue(whole, 0) * 100 + DigitsValue(frac2, 0)

Empty == Cat(<<>>)
Digit == Chr(Digits)
Spaces == Star(Chr(WhiteSpace))

\* \d{1,3}(?:,\d{3})*(?:\.\d{2})?
Amount ==
    Cat(<<Rep(Digit, 1, 3),
          Star(Cat(<<Chr({","}), Rep(Digit, 3, 3)>>)),
          Opt(Cat(<<Chr({"."}), Rep(Digit, 2, 2)>>))>>)

\* the list price_patterns, helpers.py 101-107
price_patterns ==
    << \* \$(\d{1,3}(?:,\d{3})*(?:\.\d{2})?)
       Pat(Chr({"$"}), Amount, Empty),
       \* (\d{1,3}(?:,\d{3})*(?:\.\d{2})?)\s*(?:USD|dollars?|bucks?)
       Pat(Empty, Amount,
           Cat(<<Spaces,
                 Alt(<<Word(<<"U", "S", "D">>),
                       Cat(<<Word(<<"d", "o", "l", "l", "a", "r">>), Opt(Chr(AnyCase("s")))>>),
                       Cat(<<Word(<<"b", "u", "c", "k">>), Opt(Chr(AnyCase("s")))>>)>>)>>)),
       \* (?:price|cost|fee|rate|from|starting|only)\s*:?\s*\$?(\d{1,3}(?:,\d{3})*(?:\.\d{2})?)
       Pat(Cat(<<Alt(<<Word(<<"p", "r", "i", "c", "e">>), Word(<<"c", "o", "s", "t">>), Word(<<"f", "e", "e">>), Word(<<"r", "a", "t", "e">>),
                       Word(<<"f", "r", "o", "m">>), Word(<<"s", "t", "a", "r", "t", "i", "n", "g">>), Word(<<"o", "n", "l", "y">>)>>),
                 Spaces, Opt(Chr({":"})), Spaces, Opt(Chr({"$"}))>>),
           Amount, Empty),
       \* \$(\d+)(?:/month|/mo|/year|/yr|/week|/day)?
       Pat(Chr({"$"}), Plus(Digit),
           Opt(Alt(<<Word(<<"/", "m", "o", "n", "t", "h">>), Word(<<"/", "m", "o">>), Word(<<"/", "y", "e", "a", "r">>),
                     Word(<<"/", "y", "r">>), Word(<<"/", "w", "e", "e", "k">>), Word(<<"/", "d", "a", "y">>)>>))),
       \* (?:priced\s+at|costs?|worth)\s+\$?(\d{1,3}(?:,\d{3})*(?:\.\d{2})?)
       Pat(Cat(<<Alt(<<Cat(<<Word(<<"p", "r", "i", "c", "e", "d">>), Plus(Chr(WhiteSpace)), Word(<<"a", "t">>)>>),
                       Cat(<<Word(<<"c", "o", "s", "t">>), Opt(Chr(AnyCase("s")))>>),
                       Word(<<"w", "o", "r", "t", "h">>)>>),
                 Plus(Chr(WhiteSpace)), Opt(Chr({"$"}))>>),
           Amount, Empty) >>

InPriceRange(price) == MinPriceCents <= price /\ price <= MaxPriceCents

\* The loop with "return None" where the source goes on to the next pattern
RECURSIVE PriceFromPattern_StopAtFirstMatch(_, _)
PriceFromPattern_StopAtFirstMatch(t, k) ==
    IF k > Len(price_patterns) THEN NoPrice
    ELSE LET matches == findall(price_patterns[k], t)
         IN IF matches = <<>> THEN PriceFromPattern_StopAtFirstMatch(t, k + 1)
            ELSE LET price == float(RemoveCommas(matches[1]))
                 IN IF price # ValueError /\ InPriceRange(price) THEN price ELSE NoPrice

\* The loop without the range validation
RECURSIVE PriceFromPattern_NoRangeCheck(_, _)
PriceFromPattern_NoRangeCheck(t, k) ==
    IF k > Len(price_patterns) THEN NoPrice
    ELSE LET matches == findall(price_patterns[k], t)
         IN IF matches = <<>> THEN PriceFromPattern_NoRangeCheck(t, k + 1)
            ELSE LET price == float(RemoveCommas(matches[1]))
                 IN IF price = ValueError THEN PriceFromPattern_NoRangeCheck(t, k + 1)
                    ELSE price

\* the loop "for pattern in price_patterns", from the k-th pattern on
RECURSIVE PriceFromPattern(_, _)
PriceFromPattern(t, k) ==
    IF k > Len(price_patterns) THEN NoPrice
    ELSE LET matches == findall(price_patterns[k], t)
         IN IF matches = <<>> THEN PriceFromPattern(t, k + 1)
            ELSE LET price == float(RemoveCommas(matches[1]))
                 IN IF price = ValueError THEN PriceFromPattern(t, k + 1)
                    ELSE IF InPriceRange(price) THEN price
                    ELSE PriceFromPattern(t, k + 1)

extract_price_from_text(t) ==
    IF t = <<>> THEN NoPrice ELSE PriceFromPattern(t, 1)

---------------------------------------------------------------------------
(* categorize_company, helpers.py 125-166 *)

\* str.lower()
lower(s) ==
    [i \in 1..Len(s) |->
        IF s[i] \in UpperLetters
        THEN LowerSeq[CHOOSE j \in 1..26 : UpperSeq[j] = s[i]]
        ELSE s[i]]

\* w in s : w occurs in s as a substring
Contains(s, w) ==
    \E i \in 1..(Len(s) - Len(w) + 1) : SubSeq(s, i, i + Len(w) - 1) = w

\* the dictionary category_keywords, in its insertion order
category_keywords ==
  <<
    <<"SaaS",
        << <<"s", "a", "a", "s">>,
           <<"s", "o", "f", "t", "w", "a", "r", "e">>,
           <<"p", "l", "a", "t", "f", "o", "r", "m">>,
           <<"c", "l", "o", "u", "d">>,
           <<"a", "p", "p">>,
           <<"s", "e", "r", "v", "i", "c", "e">> >> >>,
    <<"E-commerce",
        << <<"s", "h", "o", "p">>,
           <<"s", "t", "o", "r", "e">>,
           <<"r", "e", "t", "a", "i", "l">>,
           <<"m", "a", "r", "k", "e", "t", "p", "l", "a", "c", "e">>,
           <<"c", "o", "m", "m", "e", "r", "c", "e">>,
           <<"b", "u", "y">>,
           <<"s", "e", "l", "l">> >> >>,
    <<"Fintech",
        << <<"f", "i", "n", "a", "n", "c", "e">>,
           <<"b", "a", "n", "k", "i", "n", "g">>,
           <<"p", "a", "y", "m", "e", "n", "t">>,
           <<"f", "i", "n", "t", "e", "c", "h">>,
           <<"m", "o", "n", "e", "y">>,
           <<"i", "n", "v", "e", "s", "t", "m", "e", "n", "t">> >> >>,
    <<"Healthcare",
        << <<"h", "e", "a", "l", "t", "h">>,
           <<"m", "e", "d", "i", "c", "a", "l">>,
           <<"c", "a", "r", "e">>,
           <<"h", "o", "s", "p", "i", "t", "a", "l">>,
           <<"c", "l", "i", "n", "i", "c">>,
           <<"p", "h", "a", "r", "m", "a">> >> >>,
    <<"Education",
        << <<"e", "d", "u", "c", "a", "t", "i", "o", "n">>,
           <<"l", "e", "a", "r", "n", "i", "n", "g">>,
           <<"s", "c", "h", "o", "o", "l">>,
           <<"u", "n", "i", "v", "e", "r", "s", "i", "t", "y">>,
           <<"c", "o", "u", "r", "s", "e">>,
           <<"t", "r", "a", "i", "n", "i", "n", "g">> >> >>,
    <<"Marketing",
        << <<"m", "a", "r", "k", "e", "t", "i", "n", "g">>,
           <<"a", "d", "v", "e", "r", "t", "i", "s", "i", "n", "g">>,
           <<"c", "a", "m", "p", "a", "i", "g", "n">>,
           <<"p", "r", "o", "m", "o", "t", "i", "o", "n">>,
           <<"b", "r", "a", "n", "d">> >> >>,
    <<"Analytics",
        << <<"a", "n", "a", "l", "y", "t", "i", "c", "s">>,
           <<"d", "a", "t", "a">>,
           <<"i", "n", "s", "i", "g", "h", "t", "s">>,
           <<"i", "n", "t", "e", "l", "l", "i", "g", "e", "n", "c", "e">>,
           <<"r", "e", "p", "o", "r", "t", "i", "n", "g">> >> >>,
    <<"Communication",
        << <<"c", "o", "m", "m", "u", "n", "i", "c", "a", "t", "i", "o", "n">>,
           <<"m", "e", "s", "s", "a", "g", "i", "n", "g">>,
           <<"c", "h", "a", "t">>,
           <<"v", "i", "d", "e", "o">>,
           <<"c", "o", "n", "f", "e", "r", "e", "n", "c", "e">> >> >>,
    <<"Productivity",
        << <<"p", "r", "o", "d", "u", "c", "t", "i", "v", "i", "t", "y">>,
           <<"w", "o", "r", "k", "f", "l", "o", "w">>,
           <<"m", "a", "n", "a", "g", "e", "m", "e", "n", "t">>,
           <<"o", "r", "g", "a", "n", "i", "z", "a", "t", "i", "o", "n">> >> >>,
    <<"Security",
        << <<"s", "e", "c", "u", "r", "i", "t", "y">>,
           <<"p", "r", "o", "t", "e", "c", "t", "i", "o", "n">>,
           <<"c", "y", "b", "e", "r">>,
           <<"a", "n", "t", "i", "v", "i", "r", "u", "s">>,
           <<"f", "i", "r", "e", "w", "a", "l", "l">> >> >>
  >>

\* combined_text = f"{company_lower} {content_lower}"
combined_text(company_name, content) == lower(company_name) \o <<" ">> \o lower(content)

\* sum(1 for keyword in keywords if keyword in combined_text)
KeywordScore(keywords, combined) ==
    Cardinality({j \in 1..Len(keywords) : Contains(combined, keywords[j])})

\* max() that keeps the last of the keys with the largest score
RECURSIVE MaxByScore_LastWins(_, _, _)
MaxByScore_LastWins(ks, best, score) ==
    IF ks = <<>> THEN best
    ELSE MaxByScore_LastWins(Tail(ks),
                             IF score[Head(ks)] >= score[best] THEN Head(ks) ELSE best, score)

\* max(category_scores.keys(), key=...): the first of the keys, in
\* insertion order, that has the largest score; ks are indices into
\* category_keywords, best the index kept so far
RECURSIVE MaxByScore(_, _, _)
MaxByScore(ks, best, score) ==
    IF ks = <<>> THEN best
    ELSE MaxByScore(Tail(ks), IF score[Head(ks)] > score[best] THEN Head(ks) ELSE best, score)

categorize_company(company_name, content) ==
    LET combined == combined_text(company_name, content)
        score == [c \in 1..Len(category_keywords) |->
                    KeywordScore(category_keywords[c][2], combined)]
        \* category_scores holds the categories with score > 0, in dictionary order
        category_scores == SelectSeq([c \in 1..Len(category_keywords) |-> c],
                                     LAMBDA c : score[c] > 0)
    IN IF category_scores # <<>>
       THEN category_keywords[MaxByScore(Tail(category_scores), Head(category_scores), score)][1]
       ELSE "Other"

---------------------------------------------------------------------------
(* CompetitorScraper, scraper.py *)

\* the list price_patterns of _extract_price, scraper.py 65-70
scraper_price_patterns ==
    << \* \$(\d{1,3}(?:,\d{3})*(?:\.\d{2})?)
       Pat(Chr({"$"}), Amount, Empty),
       \* (\d{1,3}(?:,\d{3})*(?:\.\d{2})?)\s*(?:USD|dollars?)
       Pat(Empty, Amount,
           Cat(<<Spaces, Alt(<<Word(<<"U", "S", "D">>), Cat(<<Word(<<"d", "o", "l", "l", "a", "r">>), Opt(Chr(AnyCase("s")))>>)>>)>>)),
       \* (?:price|cost|from|starting)\s*:?\s*\$?(\d{1,3}(?:,\d{3})*(?:\.\d{2})?)
       Pat(Cat(<<Alt(<<Word(<<"p", "r", "i", "c", "e">>), Word(<<"c", "o", "s", "t">>), Word(<<"f", "r", "o", "m">>), Word(<<"s", "t", "a", "r", "t", "i", "n", "g">>)>>),
                 Spaces, Opt(Chr({":"})), Spaces, Opt(Chr({"$"}))>>),
           Amount, Empty),
       \* \$(\d+)(?:/month|/mo|/year|/yr)?
       Pat(Chr({"$"}), Plus(Digit),
           Opt(Alt(<<Word(<<"/", "m", "o", "n", "t", "h">>), Word(<<"/", "m", "o">>), Word(<<"/", "y", "e", "a", "r">>), Word(<<"/", "y", "r">>)>>))) >>

\* the loop of _extract_price, scraper.py 72-82, from the k-th pattern on:
\* the first match of the first pattern that matches is returned as it is
RECURSIVE ScraperPriceFromPattern(_, _)
ScraperPriceFromPattern(content, k) ==
    IF k > Len(scraper_price_patterns) THEN NoPrice
    ELSE LET matches == findall(scraper_price_patterns[k], content)
         IN IF matches = <<>> THEN ScraperPriceFromPattern(content, k + 1)
            ELSE LET price == float(RemoveCommas(matches[1]))
                 IN IF price = ValueError THEN ScraperPriceFromPattern(content, k + 1)
                    ELSE price

_extract_price(content) == ScraperPriceFromPattern(content, 1)

\* [A-Z] and [a-zA-Z] under re.IGNORECASE
AnyLetter == Chr(Letters)
LetterOrSpace == Chr(Letters \cup WhiteSpace)

\* the list product_patterns of _extract_products, scraper.py 89-93
product_patterns ==
    << \* (?:product|service|solution)s?\s*:?\s*([A-Z][a-zA-Z\s]{2,30})
       Pat(Cat(<<Alt(<<Word(<<"p", "r", "o", "d", "u", "c", "t">>), Word(<<"s", "e", "r", "v", "i", "c", "e">>), Word(<<"s", "o", "l", "u", "t", "i", "o", "n">>)>>), Opt(Chr(AnyCase("s"))),
                 Spaces, Opt(Chr({":"})), Spaces>>),
           Cat(<<AnyLetter, Rep(LetterOrSpace, 2, 30)>>), Empty),
       \* (?:introducing|announcing|launch(?:ing)?)\s+([A-Z][a-zA-Z\s]{2,30})
       Pat(Cat(<<Alt(<<Word(<<"i", "n", "t", "r", "o", "d", "u", "c", "i", "n", "g">>), Word(<<"a", "n", "n", "o", "u", "n", "c", "i", "n", "g">>),
                       Cat(<<Word(<<"l", "a", "u", "n", "c", "h">>), Opt(Word(<<"i", "n", "g">>))>>)>>),
                 Plus(Chr(WhiteSpace))>>),
           Cat(<<AnyLetter, Rep(LetterOrSpace, 2, 30)>>), Empty),
       \* ([A-Z][a-zA-Z]{2,20})\s+(?:platform|software|app|tool|service)
       Pat(Empty, Cat(<<AnyLetter, Rep(AnyLetter, 2, 20)>>),
           Cat(<<Plus(Chr(WhiteSpace)),
                 Alt(<<Word(<<"p", "l", "a", "t", "f", "o", "r", "m">>), Word(<<"s", "o", "f", "t", "w", "a", "r", "e">>), Word(<<"a", "p", "p">>), Word(<<"t", "o", "o", "l">>), Word(<<"s", "e", "r", "v", "i", "c", "e">>)>>)>>)) >>

\* each entry once, at its last position
RECURSIVE Dedupe_KeepLast(_)
Dedupe_KeepLast(xs) ==
    IF xs = <<>> THEN <<>>
    ELSE LET last == xs[Len(xs)]
         IN Dedupe_KeepLast(SelectSeq(SubSeq(xs, 1, Len(xs) - 1), LAMBDA x : x # last))
            \o <<last>>

\* list(dict.fromkeys(products)): each entry once, at its first position
RECURSIVE Dedupe(_)
Dedupe(xs) ==
    IF xs = <<>> THEN <<>>
    ELSE <<Head(xs)>> \o Dedupe(SelectSeq(Tail(xs), LAMBDA x : x # Head(xs)))

\* products[:5]
MaxProducts == 5

Take(xs, n) == SubSeq(xs, 1, IF Len(xs) < n THEN Len(xs) ELSE n)

\* the matches of one pattern, stripped, those longer than 2 characters
StrippedMatches(k, content) ==
    LET matches == findall(product_patterns[k], content)
    IN SelectSeq([i \in 1..Len(matches) |-> Strip(matches[i])], LAMBDA m : Len(m) > 2)

\* scraper.py 84-101
_extract_products(content) ==
    Take(Dedupe(Concat([k \in 1..Len(product_patterns) |-> StrippedMatches(k, content)])),
         MaxProducts)

---------------------------------------------------------------------------
(* The CRM extractors of app.py *)

\* content = None, and the exception that None.lower() raises
NullContent == <<"None">>
AttributeError == <<"AttributeError">>

\* the dictionary known_prices of extract_entry_price, app.py 88-99, in its
\* insertion order: <<platform, price>>
known_prices ==
    << <<<<"s", "a", "l", "e", "s", "f", "o", "r", "c", "e">>,
         <<"$", "2", "5", "/", "u", "s", "e", "r", "/", "m", "o", "n", "t", "h">>>>,
       <<<<"h", "u", "b", "s", "p", "o", "t">>,
         <<"F", "r", "e", "e", " ", "(", "S", "t", "a", "r", "t", "e", "r", ":", " ", "$", "2", "0", "/", "u", "s", "e", "r", "/", "m", "o", "n", "t", "h", ")">>>>,
       <<<<"p", "i", "p", "e", "d", "r", "i", "v", "e">>,
         <<"$", "1", "4", ".", "9", "0", "/", "u", "s", "e", "r", "/", "m", "o", "n", "t", "h">>>>,
       <<<<"z", "o", "h", "o">>,
         <<"$", "1", "4", "/", "u", "s", "e", "r", "/", "m", "o", "n", "t", "h">>>>,
       <<<<"m", "i", "c", "r", "o", "s", "o", "f", "t", " ", "d", "y", "n", "a", "m", "i", "c", "s">>,
         <<"$", "6", "5", "/", "u", "s", "e", "r", "/", "m", "o", "n", "t", "h">>>>,
       <<<<"f", "r", "e", "s", "h", "s", "a", "l", "e", "s">>,
         <<"$", "1", "5", "/", "u", "s", "e", "r", "/", "m", "o", "n", "t", "h">>>>,
       <<<<"c", "o", "p", "p", "e", "r">>,
         <<"$", "2", "9", "/", "u", "s", "e", "r", "/", "m", "o", "n", "t", "h">>>>,
       <<<<"c", "l", "o", "s", "e">>,
         <<"$", "2", "9", "/", "u", "s", "e", "r", "/", "m", "o", "n", "t", "h">>>>,
       <<<<"i", "n", "s", "i", "g", "h", "t", "l", "y">>,
         <<"$", "2", "9", "/", "u", "s", "e", "r", "/", "m", "o", "n", "t", "h">>>>,
       <<<<"m", "o", "n", "d", "a", "y", ".", "c", "o", "m">>,
         <<"$", "1", "0", "/", "u", "s", "e", "r", "/", "m", "o", "n", "t", "h">>>> >>

\* \d+(?:\.\d{2})?
EntryAmount == Cat(<<Plus(Digit), Opt(Cat(<<Chr({"."}), Rep(Digit, 2, 2)>>))>>)

\* the list price_patterns of extract_entry_price, app.py 108-114; they are
\* applied to the lower-cased content, without re.IGNORECASE
entry_price_patterns ==
    << \* \$(\d+(?:\.\d{2})?)\s*(?:/user)?(?:/month|/mo)
       Pat(Lit(<<"$">>), EntryAmount,
           Cat(<<Spaces, Opt(Lit(<<"/", "u", "s", "e", "r">>)), Alt(<<Lit(<<"/", "m", "o", "n", "t", "h">>), Lit(<<"/", "m", "o">>)>>)>>)),
       \* starting\s+at\s+\$(\d+(?:\.\d{2})?)
       Pat(Cat(<<Lit(<<"s", "t", "a", "r", "t", "i", "n", "g">>), Plus(Chr(WhiteSpace)), Lit(<<"a", "t">>), Plus(Chr(WhiteSpace)),
                 Lit(<<"$">>)>>),
           EntryAmount, Empty),
       \* from\s+\$(\d+(?:\.\d{2})?)
       Pat(Cat(<<Lit(<<"f", "r", "o", "m">>), Plus(Chr(WhiteSpace)), Lit(<<"$">>)>>), EntryAmount, Empty),
       \* \$(\d+)\s*per\s*user
       Pat(Lit(<<"$">>), Plus(Digit), Cat(<<Spaces, Lit(<<"p", "e", "r">>), Spaces, Lit(<<"u", "s", "e", "r">>)>>)),
       \* free.*?\$(\d+(?:\.\d{2})?)
       Pat(Cat(<<Lit(<<"f", "r", "e", "e">>), Lazy(NotChr({"\n"}), 0, -1), Lit(<<"$">>)>>), EntryAmount, Empty) >>

NotAvailable == <<"N", "/", "A">>

\* the first of the platforms, in dictionary order, that company_name.lower()
\* contains; 0 when there is none
KnownPlatform(table, company_name) ==
    LET hits == {k \in 1..Len(table) : Contains(lower(company_name), table[k][1])}
    IN IF hits = {} THEN 0 ELSE CHOOSE k \in hits : \A h \in hits : k <= h

\* the loop over price_patterns, app.py 116-119, from the k-th pattern on
RECURSIVE EntryPriceFromPattern(_, _)
EntryPriceFromPattern(content_lower, k) ==
    IF k > Len(entry_price_patterns) THEN NotAvailable
    ELSE LET matches == findall(entry_price_patterns[k], content_lower)
         IN IF matches # <<>> THEN <<"$">> \o matches[1] \o <<"/", "u", "s", "e", "r", "/", "m", "o", "n", "t", "h">>
            ELSE EntryPriceFromPattern(content_lower, k + 1)

\* the patterns first, the table when they find nothing
extract_entry_price_PatternsFirst(content, company_name) ==
    LET found == EntryPriceFromPattern(lower(content), 1)
        platform == KnownPlatform(known_prices, company_name)
    IN IF found # NotAvailable \/ platform = 0 THEN found
       ELSE known_prices[platform][2]

\* app.py 83-121; content.lower() is the first statement (85)
extract_entry_price(content, company_name) ==
    LET platform == KnownPlatform(known_prices, company_name)
    IN IF content = NullContent THEN AttributeError
       ELSE IF platform # 0 THEN known_prices[platform][2]
       ELSE EntryPriceFromPattern(lower(content), 1)

\* an optional value is <<>> (None) or <<v>>
None == <<>>

\* text_content[:5000], scraper.py 47
MaxContent == 5000

\* the dictionary known_features of extract_crm_features, app.py 128-139
known_features ==
    << <<<<"s", "a", "l", "e", "s", "f", "o", "r", "c", "e">>,
         <<"L", "e", "a", "d", " ", "M", "a", "n", "a", "g", "e", "m", "e", "n", "t", ",", " ", "O", "p", "p", "o", "r", "t", "u", "n", "i", "t", "y", " ", "T", "r", "a", "c", "k", "i", "n", "g", ",", " ", "E", "i", "n", "s", "t", "e", "i", "n", " ", "A", "I", ",", " ", "A", "p", "p", "E", "x", "c", "h", "a", "n", "g", "e">>>>,
       <<<<"h", "u", "b", "s", "p", "o", "t">>,
         <<"C", "o", "n", "t", "a", "c", "t", " ", "M", "a", "n", "a", "g", "e", "m", "e", "n", "t", ",", " ", "E", "m", "a", "i", "l", " ", "M", "a", "r", "k", "e", "t", "i", "n", "g", ",", " ", "S", "a", "l", "e", "s", " ", "P", "i", "p", "e", "l", "i", "n", "e", ",", " ", "F", "r", "e", "e", " ", "C", "R", "M">>>>,
       <<<<"p", "i", "p", "e", "d", "r", "i", "v", "e">>,
         <<"V", "i", "s", "u", "a", "l", " ", "S", "a", "l", "e", "s", " ", "P", "i", "p", "e", "l", "i", "n", "e", ",", " ", "A", "c", "t", "i", "v", "i", "t", "y", " ", "R", "e", "m", "i", "n", "d", "e", "r", "s", ",", " ", "G", "o", "a", "l", " ", "S", "e", "t", "t", "i", "n", "g", ",", " ", "M", "o", "b", "i", "l", "e", " ", "A", "p", "p">>>>,
       <<<<"z", "o", "h", "o">>,
         <<"M", "u", "l", "t", "i", "-", "c", "h", "a", "n", "n", "e", "l", " ", "C", "o", "m", "m", "u", "n", "i", "c", "a", "t", "i", "o", "n", ",", " ", "W", "o", "r", "k", "f", "l", "o", "w", " ", "A", "u", "t", "o", "m", "a", "t", "i", "o", "n", ",", " ", "A", "n", "a", "l", "y", "t", "i", "c", "s", ",", " ", "C", "u", "s", "t", "o", "m", "i", "z", "a", "t", "i", "o", "n">>>>,
       <<<<"m", "i", "c", "r", "o", "s", "o", "f", "t", " ", "d", "y", "n", "a", "m", "i", "c", "s">>,
         <<"O", "f", "f", "i", "c", "e", " ", "3", "6", "5", " ", "I", "n", "t", "e", "g", "r", "a", "t", "i", "o", "n", ",", " ", "R", "e", "l", "a", "t", "i", "o", "n", "s", "h", "i", "p", " ", "A", "n", "a", "l", "y", "t", "i", "c", "s", ",", " ", "L", "i", "n", "k", "e", "d", "I", "n", " ", "I", "n", "t", "e", "g", "r", "a", "t", "i", "o", "n">>>>,
       <<<<"f", "r", "e", "s", "h", "s", "a", "l", "e", "s">>,
         <<"B", "u", "i", "l", "t", "-", "i", "n", " ", "P", "h", "o", "n", "e", ",", " ", "E", "m", "a", "i", "l", " ", "T", "r", "a", "c", "k", "i", "n", "g", ",", " ", "L", "e", "a", "d", " ", "S", "c", "o", "r", "i", "n", "g", ",", " ", "A", "u", "t", "o", "-", "p", "r", "o", "f", "i", "l", "e", " ", "E", "n", "r", "i", "c", "h", "m", "e", "n", "t">>>>,
       <<<<"c", "o", "p", "p", "e", "r">>,
         <<"G", "o", "o", "g", "l", "e", " ", "W", "o", "r", "k", "s", "p", "a", "c", "e", " ", "I", "n", "t", "e", "g", "r", "a", "t", "i", "o", "n", ",", " ", "A", "u", "t", "o", "m", "a", "t", "e", "d", " ", "D", "a", "t", "a", " ", "E", "n", "t", "r", "y", ",", " ", "R", "e", "l", "a", "t", "i", "o", "n", "s", "h", "i", "p", " ", "T", "r", "a", "c", "k", "i", "n", "g">>>>,
       <<<<"c", "l", "o", "s", "e">>,
         <<"B", "u", "i", "l", "t", "-", "i", "n", " ", "C", "a", "l", "l", "i", "n", "g", ",", " ", "E", "m", "a", "i", "l", " ", "S", "e", "q", "u", "e", "n", "c", "e", "s", ",", " ", "S", "M", "S", ",", " ", "P", "r", "e", "d", "i", "c", "t", "i", "v", "e", " ", "D", "i", "a", "l", "e", "r">>>>,
       <<<<"i", "n", "s", "i", "g", "h", "t", "l", "y">>,
         <<"P", "r", "o", "j", "e", "c", "t", " ", "M", "a", "n", "a", "g", "e", "m", "e", "n", "t", ",", " ", "C", "u", "s", "t", "o", "m", " ", "F", "i", "e", "l", "d", "s", ",", " ", "W", "o", "r", "k", "f", "l", "o", "w", " ", "A", "u", "t", "o", "m", "a", "t", "i", "o", "n", ",", " ", "W", "e", "b", "-", "t", "o", "-", "L", "e", "a", "d">>>>,
       <<<<"m", "o", "n", "d", "a", "y", ".", "c", "o", "m">>,
         <<"V", "i", "s", "u", "a", "l", " ", "W", "o", "r", "k", "f", "l", "o", "w", "s", ",", " ", "T", "i", "m", "e", " ", "T", "r", "a", "c", "k", "i", "n", "g", ",", " ", "C", "u", "s", "t", "o", "m", " ", "D", "a", "s", "h", "b", "o", "a", "r", "d", "s", ",", " ", "T", "e", "a", "m", " ", "C", "o", "l", "l", "a", "b", "o", "r", "a", "t", "i", "o", "n">>>> >>

\* app.py 147
feature_keywords ==
    << <<"l", "e", "a", "d">>,
       <<"c", "o", "n", "t", "a", "c", "t">>,
       <<"p", "i", "p", "e", "l", "i", "n", "e">>,
       <<"a", "u", "t", "o", "m", "a", "t", "i", "o", "n">>,
       <<"i", "n", "t", "e", "g", "r", "a", "t", "i", "o", "n">>,
       <<"a", "n", "a", "l", "y", "t", "i", "c", "s">>,
       <<"m", "o", "b", "i", "l", "e">>,
       <<"e", "m", "a", "i", "l">>,
       <<"r", "e", "p", "o", "r", "t", "i", "n", "g">> >>

\* the dictionary known_ai of extract_ai_capabilities, app.py 161-172
known_ai ==
    << <<<<"s", "a", "l", "e", "s", "f", "o", "r", "c", "e">>,
         <<"E", "i", "n", "s", "t", "e", "i", "n", " ", "A", "I", ",", " ", "P", "r", "e", "d", "i", "c", "t", "i", "v", "e", " ", "L", "e", "a", "d", " ", "S", "c", "o", "r", "i", "n", "g", ",", " ", "O", "p", "p", "o", "r", "t", "u", "n", "i", "t", "y", " ", "I", "n", "s", "i", "g", "h", "t", "s">>>>,
       <<<<"h", "u", "b", "s", "p", "o", "t">>,
         <<"C", "o", "n", "t", "e", "n", "t", " ", "A", "s", "s", "i", "s", "t", "a", "n", "t", ",", " ", "C", "o", "n", "v", "e", "r", "s", "a", "t", "i", "o", "n", " ", "I", "n", "t", "e", "l", "l", "i", "g", "e", "n", "c", "e", ",", " ", "P", "r", "e", "d", "i", "c", "t", "i", "v", "e", " ", "L", "e", "a", "d", " ", "S", "c", "o", "r", "i", "n", "g">>>>,
       <<<<"p", "i", "p", "e", "d", "r", "i", "v", "e">>,
         <<"S", "m", "a", "r", "t", " ", "C", "o", "n", "t", "a", "c", "t", " ", "D", "a", "t", "a", ",", " ", "E", "m", "a", "i", "l", " ", "S", "y", "n", "c", ",", " ", "A", "c", "t", "i", "v", "i", "t", "y", " ", "A", "u", "t", "o", "m", "a", "t", "i", "o", "n">>>>,
       <<<<"z", "o", "h", "o">>,
         <<"Z", "i", "a", " ", "A", "I", " ", "A", "s", "s", "i", "s", "t", "a", "n", "t", ",", " ", "S", "a", "l", "e", "s", " ", "P", "r", "e", "d", "i", "c", "t", "i", "o", "n", "s", ",", " ", "A", "n", "o", "m", "a", "l", "y", " ", "D", "e", "t", "e", "c", "t", "i", "o", "n">>>>,
       <<<<"m", "i", "c", "r", "o", "s", "o", "f", "t", " ", "d", "y", "n", "a", "m", "i", "c", "s">>,
         <<"R", "e", "l", "a", "t", "i", "o", "n", "s", "h", "i", "p", " ", "A", "n", "a", "l", "y", "t", "i", "c", "s", ",", " ", "P", "r", "e", "d", "i", "c", "t", "i", "v", "e", " ", "F", "o", "r", "e", "c", "a", "s", "t", "i", "n", "g", ",", " ", "A", "I", " ", "B", "u", "i", "l", "d", "e", "r">>>>,
       <<<<"f", "r", "e", "s", "h", "s", "a", "l", "e", "s">>,
         <<"F", "r", "e", "d", "d", "y", " ", "A", "I", ",", " ", "L", "e", "a", "d", " ", "S", "c", "o", "r", "i", "n", "g", ",", " ", "D", "e", "a", "l", " ", "I", "n", "s", "i", "g", "h", "t", "s">>>>,
       <<<<"c", "o", "p", "p", "e", "r">>,
         <<"S", "m", "a", "r", "t", " ", "D", "a", "t", "a", " ", "E", "n", "t", "r", "y", ",", " ", "A", "u", "t", "o", "m", "a", "t", "e", "d", " ", "L", "e", "a", "d", " ", "C", "a", "p", "t", "u", "r", "e", ",", " ", "P", "r", "e", "d", "i", "c", "t", "i", "v", "e", " ", "I", "n", "s", "i", "g", "h", "t", "s">>>>,
       <<<<"c", "l", "o", "s", "e">>,
         <<"S", "m", "a", "r", "t", " ", "V", "i", "e", "w", "s", ",", " ", "P", "r", "e", "d", "i", "c", "t", "i", "v", "e", " ", "D", "i", "a", "l", "e", "r", ",", " ", "C", "a", "l", "l", " ", "A", "n", "a", "l", "y", "t", "i", "c", "s">>>>,
       <<<<"i", "n", "s", "i", "g", "h", "t", "l", "y">>,
         <<"A", "u", "t", "o", "m", "a", "t", "e", "d", " ", "L", "e", "a", "d", " ", "R", "o", "u", "t", "i", "n", "g", ",", " ", "O", "p", "p", "o", "r", "t", "u", "n", "i", "t", "y", " ", "I", "n", "s", "i", "g", "h", "t", "s", ",", " ", "W", "o", "r", "k", "f", "l", "o", "w", " ", "A", "u", "t", "o", "m", "a", "t", "i", "o", "n">>>>,
       <<<<"m", "o", "n", "d", "a", "y", ".", "c", "o", "m">>,
         <<"A", "u", "t", "o", "m", "a", "t", "i", "o", "n", " ", "R", "e", "c", "i", "p", "e", "s", ",", " ", "T", "i", "m", "e", " ", "T", "r", "a", "c", "k", "i", "n", "g", " ", "A", "I", ",", " ", "S", "m", "a", "r", "t", " ", "N", "o", "t", "i", "f", "i", "c", "a", "t", "i", "o", "n", "s">>>> >>

\* app.py 180
ai_keywords ==
    << <<"a", "i">>,
       <<"a", "r", "t", "i", "f", "i", "c", "i", "a", "l", " ", "i", "n", "t", "e", "l", "l", "i", "g", "e", "n", "c", "e">>,
       <<"m", "a", "c", "h", "i", "n", "e", " ", "l", "e", "a", "r", "n", "i", "n", "g">>,
       <<"a", "u", "t", "o", "m", "a", "t", "i", "o", "n">>,
       <<"p", "r", "e", "d", "i", "c", "t", "i", "v", "e">>,
       <<"s", "m", "a", "r", "t">>,
       <<"i", "n", "t", "e", "l", "l", "i", "g", "e", "n", "t">> >>

\* the dictionary known_markets of determine_target_market, app.py 194-205
known_markets ==
    << <<<<"s", "a", "l", "e", "s", "f", "o", "r", "c", "e">>,
         <<"E", "n", "t", "e", "r", "p", "r", "i", "s", "e", ",", " ", "L", "a", "r", "g", "e", " ", "T", "e", "a", "m", "s">>>>,
       <<<<"h", "u", "b", "s", "p", "o", "t">>,
         <<"S", "M", "B", ",", " ", "M", "a", "r", "k", "e", "t", "i", "n", "g", " ", "T", "e", "a", "m", "s">>>>,
       <<<<"p", "i", "p", "e", "d", "r", "i", "v", "e">>,
         <<"S", "m", "a", "l", "l", " ", "B", "u", "s", "i", "n", "e", "s", "s", ",", " ", "S", "a", "l", "e", "s", " ", "T", "e", "a", "m", "s">>>>,
       <<<<"z", "o", "h", "o">>,
         <<"S", "M", "B", ",", " ", "M", "u", "l", "t", "i", "-", "d", "e", "p", "a", "r", "t", "m", "e", "n", "t">>>>,
       <<<<"m", "i", "c", "r", "o", "s", "o", "f", "t", " ", "d", "y", "n", "a", "m", "i", "c", "s">>,
         <<"E", "n", "t", "e", "r", "p", "r", "i", "s", "e", ",", " ", "M", "i", "c", "r", "o", "s", "o", "f", "t", " ", "U", "s", "e", "r", "s">>>>,
       <<<<"f", "r", "e", "s", "h", "s", "a", "l", "e", "s">>,
         <<"S", "M", "B", ",", " ", "C", "u", "s", "t", "o", "m", "e", "r", " ", "S", "u", "p", "p", "o", "r", "t">>>>,
       <<<<"c", "o", "p", "p", "e", "r">>,
         <<"S", "m", "a", "l", "l", " ", "B", "u", "s", "i", "n", "e", "s", "s", ",", " ", "G", "o", "o", "g", "l", "e", " ", "U", "s", "e", "r", "s">>>>,
       <<<<"c", "l", "o", "s", "e">>,
         <<"S", "M", "B", ",", " ", "I", "n", "s", "i", "d", "e", " ", "S", "a", "l", "e", "s">>>>,
       <<<<"i", "n", "s", "i", "g", "h", "t", "l", "y">>,
         <<"S", "M", "B", ",", " ", "P", "r", "o", "j", "e", "c", "t", "-", "b", "a", "s", "e", "d">>>>,
       <<<<"m", "o", "n", "d", "a", "y", ".", "c", "o", "m">>,
         <<"S", "M", "B", ",", " ", "T", "e", "a", "m", " ", "C", "o", "l", "l", "a", "b", "o", "r", "a", "t", "i", "o", "n">>>> >>

upper1(c) == IF c \in LowerLetters THEN UpperSeq[CHOOSE j \in 1..26 : LowerSeq[j] = c] ELSE c
lower1(c) == IF c \in UpperLetters THEN LowerSeq[CHOOSE j \in 1..26 : UpperSeq[j] = c] ELSE c

\* str.title(): a letter that follows a letter is lower-cased, any other
\* letter is upper-cased
title(w) ==
    [i \in 1..Len(w) |->
        IF i > 1 /\ w[i - 1] \in Letters THEN lower1(w[i]) ELSE upper1(w[i])]

\* ', '.join(words)
RECURSIVE JoinComma(_)
JoinComma(ws) ==
    IF ws = <<>> THEN <<>>
    ELSE IF Len(ws) = 1 THEN ws[1]
    ELSE ws[1] \o <<",", " ">> \o JoinComma(Tail(ws))

\* the loops of app.py 150-152 and 183-185: the keywords that occur in
\* content_lower, in the order of the list, each one title-cased
RECURSIVE FoundKeywords(_, _)
FoundKeywords(keywords, content_lower) ==
    IF keywords = <<>> THEN <<>>
    ELSE (IF Contains(content_lower, keywords[1]) THEN <<title(keywords[1])>> ELSE <<>>)
         \o FoundKeywords(Tail(keywords), content_lower)

\* found_features[:4] and found_ai[:3]
MaxFeatures == 4
MaxAi == 3

BasicAutomation == <<"B", "a", "s", "i", "c", " ", "A", "u", "t", "o", "m", "a", "t", "i", "o", "n">>
GeneralBusiness == <<"G", "e", "n", "e", "r", "a", "l", " ", "B", "u", "s", "i", "n", "e", "s", "s">>

\* app.py 123-154; content.lower() is the first statement (125)
extract_crm_features(content, company_name) ==
    LET platform == KnownPlatform(known_features, company_name)
        found_features == FoundKeywords(feature_keywords, lower(content))
    IN IF content = NullContent THEN AttributeError
       ELSE IF platform # 0 THEN known_features[platform][2]
       ELSE IF found_features # <<>> THEN JoinComma(Take(found_features, MaxFeatures))
       ELSE NotAvailable

\* every keyword found is reported
extract_ai_capabilities_Uncapped(content, company_name) ==
    LET platform == KnownPlatform(known_ai, company_name)
        found_ai == FoundKeywords(ai_keywords, lower(content))
    IN IF platform # 0 THEN known_ai[platform][2]
       ELSE IF found_ai # <<>> THEN JoinComma(found_ai)
       ELSE BasicAutomation

\* app.py 156-187; content.lower() is the first statement (158)
extract_ai_capabilities(content, company_name) ==
    LET platform == KnownPlatform(known_ai, company_name)
        found_ai == FoundKeywords(ai_keywords, lower(content))
    IN IF content = NullContent THEN AttributeError
       ELSE IF platform # 0 THEN known_ai[platform][2]
       ELSE IF found_ai # <<>> THEN JoinComma(Take(found_ai, MaxAi))
       ELSE BasicAutomation

\* app.py 189-212; the content is not read
determine_target_market(content, company_name) ==
    LET platform == KnownPlatform(known_markets, company_name)
    IN IF platform # 0 THEN known_markets[platform][2] ELSE GeneralBusiness

\* app.py 49-81.  text_content is what trafilatura extracted from the page,
\* <<>> when the fetch or the extraction gave nothing (scrape_competitor
\* returns None); the content of the scraped record is text_content[:5000]
extract_crm_data(text_content, company_name) ==
    IF text_content = <<>> THEN None
    ELSE LET content == Take(text_content, MaxContent)
         IN << [Platform |-> company_name,
                Entry_Price |-> extract_entry_price(content, company_name),
                Notable_Features |-> extract_crm_features(content, company_name),
                AI_Automation |-> extract_ai_capabilities(content, company_name),
                Target_Market |-> determine_target_market(content, company_name),
                raw_content |-> content] >>

---------------------------------------------------------------------------
(* Data frames.  A frame is [columns |-> the column names, rows |-> the     *)
(* rows in order]; a row is [idx, company, price, last_updated] where idx  *)
(* is its index label, price is a number or NoPrice (NaN)                   *)
(* and last_updated is a day number.                                       *)

\* pd.DataFrame()
EmptyFrame == [columns |-> {}, rows |-> <<>>]

\* DataFrame.empty
IsEmptyFrame(data) == data.rows = <<>> \/ data.columns = {}

\* DataFrame.dropna(subset=[column])
dropna(data, column) ==
    [data EXCEPT !.rows = SelectSeq(data.rows, LAMBDA r : r[column] # NoPrice)]

ColumnValues(data, column) == [i \in 1..Len(data.rows) |-> data.rows[i][column]]

RECURSIVE SumSeq(_)
SumSeq(xs) == IF xs = <<>> THEN 0 ELSE Head(xs) + SumSeq(Tail(xs))

\* a/b > c/d for a, c >= 0 and b, d > 0, without forming the products
RECURSIVE FracGT(_, _, _, _)
FracGT(a, b, c, d) ==
    IF a \div b # c \div d THEN a \div b > c \div d
    ELSE IF a % b = 0 THEN FALSE
    ELSE IF c % d = 0 THEN TRUE
    ELSE FracGT(d, c % d, b, a % b)

---------------------------------------------------------------------------
(* detect_outliers, helpers.py 434-480 *)

\* 4 * Series.quantile(k/4) with the default linear interpolation: the
\* value at position (n-1)*k/4 of the sorted values
Quantile4(values, k) ==
    LET sorted == SortSeq(values, LAMBDA a, b : a < b)
        pos4 == (Len(sorted) - 1) * k
        lo == pos4 \div 4
        r == pos4 % 4
    IN IF r = 0 THEN 4 * sorted[lo + 1]
       ELSE 4 * sorted[lo + 1] + r * (sorted[lo + 2] - sorted[lo + 1])

\* the upper fence alone
IqrOutliers_UpperOnly(clean_data, column) ==
    LET values == ColumnValues(clean_data, column)
        Q1x4 == Quantile4(values, 1)
        Q3x4 == Quantile4(values, 3)
        upper_bound8 == 5 * Q3x4 - 3 * Q1x4
    IN [clean_data EXCEPT !.rows =
          SelectSeq(clean_data.rows, LAMBDA r : 8 * r[column] > upper_bound8)]

\* the rows with value < Q1 - 1.5*IQR or value > Q3 + 1.5*IQR, all times 8
IqrOutliers(clean_data, column) ==
    LET values == ColumnValues(clean_data, column)
        Q1x4 == Quantile4(values, 1)
        Q3x4 == Quantile4(values, 3)
        lower_bound8 == 5 * Q1x4 - 3 * Q3x4
        upper_bound8 == 5 * Q3x4 - 3 * Q1x4
    IN [clean_data EXCEPT !.rows =
          SelectSeq(clean_data.rows,
                    LAMBDA r : 8 * r[column] < lower_bound8 \/ 8 * r[column] > upper_bound8)]

\* the z-scores with the population standard deviation (n in the place of
\* n - 1)
ZScoreOutliers_Population(clean_data, column) ==
    LET values == ColumnValues(clean_data, column)
        n == Len(values)
        S == SumSeq(values)
        V == n * SumSeq([i \in 1..n |-> values[i] * values[i]]) - S * S
    IN [clean_data EXCEPT !.rows =
          IF n < 2 \/ V = 0 THEN <<>>
          ELSE SelectSeq(clean_data.rows,
                         LAMBDA r : FracGT((n * r[column] - S) * (n * r[column] - S),
                                           n * V, 25, 4 * n))]

\* the rows with abs((value - mean) / std) > 2.5, std the sample standard
\* deviation: with n values of sum S and V = n*sum(x^2) - S^2,
\* (n*x - S)^2 / (n*V) > 25 / (4*(n-1)).  With std = 0 or NaN no z exceeds 2.5.
ZScoreOutliers(clean_data, column) ==
    LET values == ColumnValues(clean_data, column)
        n == Len(values)
        S == SumSeq(values)
        V == n * SumSeq([i \in 1..n |-> values[i] * values[i]]) - S * S
    IN [clean_data EXCEPT !.rows =
          IF n < 2 \/ V = 0 THEN <<>>
          ELSE SelectSeq(clean_data.rows,
                         LAMBDA r : FracGT((n * r[column] - S) * (n * r[column] - S),
                                           n * V, 25, 4 * (n - 1)))]

\* len(clean_data) < 4
MinOutlierRows == 4

\* the early return with the frame left as it is
detect_outliers_ReturnInput(data, column, method) ==
    IF IsEmptyFrame(data) \/ column \notin data.columns THEN EmptyFrame
    ELSE LET clean_data == dropna(data, column)
         IN IF Len(clean_data.rows) < MinOutlierRows THEN clean_data
            ELSE IF method = "iqr" THEN IqrOutliers(clean_data, column)
            ELSE IF method = "zscore" THEN ZScoreOutliers(clean_data, column)
            ELSE EmptyFrame

detect_outliers(data, column, method) ==
    IF IsEmptyFrame(data) \/ column \notin data.columns THEN EmptyFrame
    ELSE LET clean_data == dropna(data, column)
         IN IF Len(clean_data.rows) < MinOutlierRows THEN EmptyFrame
            ELSE IF method = "iqr" THEN IqrOutliers(clean_data, column)
            ELSE IF method = "zscore" THEN ZScoreOutliers(clean_data, column)
            ELSE EmptyFrame

---------------------------------------------------------------------------
(* calculate_market_metrics, helpers.py 366-432 *)

\* a metric that is not in the returned dictionary
Absent == [present |-> FALSE]

\* data['company'].value_counts(): the number of rows per company
value_counts(data) ==
    LET companies == {data.rows[i].company : i \in 1..Len(data.rows)}
    IN [c \in companies |-> Cardinality({i \in 1..Len(data.rows) : data.rows[i].company = c})]

RECURSIVE SumOver(_, _)
SumOver(f, S) ==
    IF S = {} THEN 0
    ELSE LET x == CHOOSE y \in S : TRUE IN f[x] + SumOver(f, S \ {x})

\* the classes with >= in the place of >
MarketConcentration_AtLeast(data) ==
    IF "company" \notin data.columns THEN Absent
    ELSE LET company_counts == value_counts(data)
             total_entries == Len(data.rows)
             hhi_num == 10000 * SumOver([c \in DOMAIN company_counts |->
                                            company_counts[c] * company_counts[c]],
                                        DOMAIN company_counts)
             hhi_den == total_entries * total_entries
         IN [present |-> TRUE,
             hhi_num |-> hhi_num,
             hhi_den |-> hhi_den,
             interpretation |->
                IF hhi_num >= 2500 * hhi_den THEN "Highly Concentrated"
                ELSE IF hhi_num >= 1500 * hhi_den THEN "Moderately Concentrated"
                ELSE "Competitive"]

\* helpers.py 381-393.  hhi = sum((count / total) ** 2) * 10000 is kept as
\* the fraction hhi_num / hhi_den
MarketConcentration(data) ==
    IF "company" \notin data.columns THEN Absent
    ELSE LET company_counts == value_counts(data)
             total_entries == Len(data.rows)
             hhi_num == 10000 * SumOver([c \in DOMAIN company_counts |->
                                            company_counts[c] * company_counts[c]],
                                        DOMAIN company_counts)
             hhi_den == total_entries * total_entries
         IN [present |-> TRUE,
             hhi_num |-> hhi_num,
             hhi_den |-> hhi_den,
             interpretation |->
                IF hhi_num > 2500 * hhi_den THEN "Highly Concentrated"
                ELSE IF hhi_num > 1500 * hhi_den THEN "Moderately Concentrated"
                ELSE "Competitive"]

\* helpers.py 395-403.  cv = std / mean with the sample standard deviation;
\* with n prices of sum S and V = n*sum(x^2) - S^2, cv^2 = n*V / ((n-1)*S^2).
\* A zero mean makes cv NaN (0/0), which compares False with both thresholds.
PriceDispersion(data) ==
    IF "price" \notin data.columns
       \/ \A i \in 1..Len(data.rows) : data.rows[i].price = NoPrice
    THEN Absent
    ELSE LET price_data == dropna(data, "price")
             values == ColumnValues(price_data, "price")
             n == Len(values)
             S == SumSeq(values)
             V == n * SumSeq([i \in 1..n |-> values[i] * values[i]]) - S * S
         IN IF ~(n > 1) THEN Absent
            ELSE IF S = 0
            THEN [present |-> TRUE, cv_is_nan |-> TRUE, cv2_num |-> 0, cv2_den |-> 1,
                  interpretation |-> "Low Dispersion"]
            ELSE [present |-> TRUE, cv_is_nan |-> FALSE,
                  cv2_num |-> n * V, cv2_den |-> (n - 1) * S * S,
                  interpretation |->
                     IF 4 * n * V > (n - 1) * S * S THEN "High Dispersion"
                     ELSE IF 25 * n * V > (n - 1) * S * S THEN "Moderate Dispersion"
                     ELSE "Low Dispersion"]

\* groupby('date')['price'].sum() in the place of size(): the trend of the
\* prices instead of the trend of the record counts
daily_activity_Prices(data) ==
    LET dates == {data.rows[i].last_updated : i \in 1..Len(data.rows)}
        sorted == SortSeq(CHOOSE q \in [1..Cardinality(dates) -> dates] : Range(q) = dates,
                          LAMBDA a, b : a < b)
    IN [k \in 1..Len(sorted) |->
          SumSeq([i \in 1..Len(data.rows) |->
                    IF data.rows[i].last_updated = sorted[k] /\ data.rows[i].price # NoPrice
                    THEN data.rows[i].price ELSE 0])]

\* data_copy.groupby('date').size(): the number of rows of each date, by
\* ascending date
daily_activity(data) ==
    LET dates == {data.rows[i].last_updated : i \in 1..Len(data.rows)}
        sorted == SortSeq(CHOOSE q \in [1..Cardinality(dates) -> dates] : Range(q) = dates,
                          LAMBDA a, b : a < b)
    IN [k \in 1..Len(sorted) |->
          Cardinality({i \in 1..Len(data.rows) : data.rows[i].last_updated = sorted[k]})]

\* the classes with >= in the place of > and <= in the place of <
ActivityTrend_AtLeast(data) ==
    IF "last_updated" \notin data.columns THEN Absent
    ELSE LET y == daily_activity(data)
             n == Len(y)
             sum_x == SumSeq([k \in 1..n |-> k - 1])
             sum_y == SumSeq(y)
             sum_xy == SumSeq([k \in 1..n |-> (k - 1) * y[k]])
             sum_x2 == SumSeq([k \in 1..n |-> (k - 1) * (k - 1)])
             slope_num == n * sum_xy - sum_x * sum_y
             slope_den == n * sum_x2 - sum_x * sum_x
         IN IF ~(n > 1) THEN Absent
            ELSE IF slope_den = 0 THEN Absent
            ELSE [present |-> TRUE,
                  slope_num |-> slope_num,
                  slope_den |-> slope_den,
                  interpretation |->
                     IF 10 * slope_num >= slope_den THEN "Increasing"
                     ELSE IF 10 * slope_num <= -slope_den THEN "Decreasing"
                     ELSE "Stable"]

\* helpers.py 405-430.  x = 0..n-1, y = the daily counts; the slope is kept
\* as the fraction slope_num / slope_den, slope_den > 0
ActivityTrend(data) ==
    IF "last_updated" \notin data.columns THEN Absent
    ELSE LET y == daily_activity(data)
             n == Len(y)
             sum_x == SumSeq([k \in 1..n |-> k - 1])
             sum_y == SumSeq(y)
             sum_xy == SumSeq([k \in 1..n |-> (k - 1) * y[k]])
             sum_x2 == SumSeq([k \in 1..n |-> (k - 1) * (k - 1)])
             slope_num == n * sum_xy - sum_x * sum_y
             slope_den == n * sum_x2 - sum_x * sum_x
         IN IF ~(n > 1) THEN Absent
            ELSE IF slope_den = 0 THEN Absent
            ELSE [present |-> TRUE,
                  slope_num |-> slope_num,
                  slope_den |-> slope_den,
                  interpretation |->
                     IF 10 * slope_num > slope_den THEN "Increasing"
                     ELSE IF 10 * slope_num < -slope_den THEN "Decreasing"
                     ELSE "Stable"]

\* metrics = {} for an empty frame
NoMetrics ==
    [market_concentration |-> Absent, price_dispersion |-> Absent, activity_trend |-> Absent]

calculate_market_metrics(data) ==
    IF IsEmptyFrame(data) THEN NoMetrics
    ELSE [market_concentration |-> MarketConcentration(data),
          price_dispersion |-> PriceDispersion(data),
          activity_trend |-> ActivityTrend(data)]

---------------------------------------------------------------------------
(* generate_summary_stats, helpers.py 209-271.  The rows it is given also  *)
(* have a category; last_updated and the clock are day numbers.            *)

\* a date_range that is one of the two fixed strings has kind = the string
NoDateRange(kind) == [kind |-> kind, from |-> 0, to |-> 0]

\* price_stats = None
NoPriceStats == [present |-> FALSE]

\* {}
EmptyDistribution == [c \in {} |-> 0]

\* the summary of an empty frame, helpers.py 219-227
EmptySummary ==
    [total_records |-> 0,
     unique_companies |-> 0,
     date_range |-> NoDateRange("No data"),
     price_stats |-> NoPriceStats,
     category_distribution |-> EmptyDistribution,
     recent_activity |-> 0]

SeqMin(xs) == CHOOSE x \in Range(xs) : \A y \in Range(xs) : x <= y

SeqMax(xs) == CHOOSE x \in Range(xs) : \A y \in Range(xs) : x >= y

\* 2 * Series.median(): the middle value, or the mean of the two middle values
Median2(values) ==
    LET sorted == SortSeq(values, LAMBDA a, b : a < b)
        n == Len(sorted)
    IN IF n % 2 = 1 THEN 2 * sorted[(n + 1) \div 2]
       ELSE sorted[n \div 2] + sorted[n \div 2 + 1]

\* timedelta(days=7)
RecentDays == 7

\* price_stats whose count is the number of all records
PriceStats_CountAll(data) ==
    IF "price" \notin data.columns
       \/ \A i \in 1..Len(data.rows) : data.rows[i].price = NoPrice
    THEN NoPriceStats
    ELSE LET values == ColumnValues(dropna(data, "price"), "price")
         IN [present |-> TRUE,
             count |-> Len(data.rows),
             sum |-> SumSeq(values),
             median2 |-> Median2(values),
             min |-> SeqMin(values),
             max |-> SeqMax(values),
             std2_num |-> 0,
             std2_den |-> 1]

\* helpers.py 248-263.  mean = sum / count; std^2 = std2_num / std2_den, the
\* sample variance, and 0 with a single price
PriceStats(data) ==
    IF "price" \notin data.columns
       \/ \A i \in 1..Len(data.rows) : data.rows[i].price = NoPrice
    THEN NoPriceStats
    ELSE LET price_data == dropna(data, "price")
             values == ColumnValues(price_data, "price")
             n == Len(values)
             S == SumSeq(values)
         IN IF price_data.rows = <<>> THEN NoPriceStats
            ELSE [present |-> TRUE,
                  count |-> n,
                  sum |-> S,
                  median2 |-> Median2(values),
                  min |-> SeqMin(values),
                  max |-> SeqMax(values),
                  std2_num |-> IF n > 1
                               THEN n * SumSeq([i \in 1..n |-> values[i] * values[i]]) - S * S
                               ELSE 0,
                  std2_den |-> IF n > 1 THEN n * (n - 1) ELSE 1]

\* the clock is read once, at helpers.py 241, and nowhere else
generate_summary_stats(data, clock) ==
    IF IsEmptyFrame(data) THEN EmptySummary
    ELSE LET n == Len(data.rows)
             dated == "last_updated" \in data.columns
             dates == ColumnValues(data, "last_updated")
             recent_cutoff == clock - RecentDays
             categories == {data.rows[i].category : i \in 1..n}
         IN [total_records |-> n,
             unique_companies |->
                IF "company" \in data.columns
                THEN Cardinality({data.rows[i].company : i \in 1..n}) ELSE 0,
             date_range |->
                IF dated THEN [kind |-> "range", from |-> SeqMin(dates), to |-> SeqMax(dates)]
                ELSE NoDateRange("No date information"),
             recent_activity |->
                IF dated
                THEN Cardinality({i \in 1..n : data.rows[i].last_updated >= recent_cutoff})
                ELSE 0,
             price_stats |-> PriceStats(data),
             category_distribution |->
                IF "category" \in data.columns
                THEN [c \in categories |->
                        Cardinality({i \in 1..n : data.rows[i].category = c})]
                ELSE EmptyDistribution]

---------------------------------------------------------------------------
(* CompetitorScraper.scrape_competitor and DataManager.  A stored row is   *)
(* [company, source_url, category, last_updated, content, price,           *)
(* product_name, summary]: price in cents or NoPrice, last_updated the     *)
(* clock value of the scrape.  The columns title, description and          *)
(* scraped_at are written with the row and read by nothing modelled here.  *)

\* a row whose content gave the summarizer nothing to summarize
NoSummary == "NaN"


\* scraper.py 17-59.  text_content is what trafilatura extracted from the
\* page, <<>> when the fetch or the extraction gave nothing
scrape_competitor(text_content, url, company, category_arg, clock) ==
    IF text_content = <<>> THEN None
    ELSE << [company |-> company,
             source_url |-> url,
             category |-> IF category_arg = "" THEN "Unknown" ELSE category_arg,
             last_updated |-> clock,
             content |-> Take(text_content, MaxContent),
             price |-> _extract_price(text_content),
             products |-> _extract_products(text_content)] >>

\* the file as [exists, records]
NoFile == [exists |-> FALSE, records |-> <<>>]

\* a dictionary handed to add_competitor_data without the key 'company' or
\* without the key 'last_updated'
Missing == <<>>
NoTimestamp == -1

\* the frame has the datetime column last_updated: a row has a time stamp
HasDatetimeColumn(rows) == \E i \in 1..Len(rows) : rows[i].last_updated # NoTimestamp

\* data_manager.py 36-49.  For a frame that has the datetime column
\* last_updated, Series.dt has no isoformat: the AttributeError is caught and
\* the file is left as it is.  An empty frame is written as [], and a frame
\* without a datetime column as its records.
_save_data(rows, file) ==
    IF HasDatetimeColumn(rows) THEN file
    ELSE [exists |-> TRUE, records |-> rows]

StoreRow(cd, product_name, summary) ==
    [company |-> cd.company,
     source_url |-> cd.source_url,
     category |-> cd.category,
     last_updated |-> cd.last_updated,
     content |-> cd.content,
     price |-> cd.price,
     product_name |-> product_name,
     summary |-> IF Strip(cd.content) # <<>> THEN summary ELSE NoSummary]

ServiceSuffix == <<" ", "S", "e", "r", "v", "i", "c", "e">>

\* one row whatever the products list holds
add_competitor_data_OneRow(current_data, file, competitor_data_arg, summary) ==
    IF competitor_data_arg = None
    THEN [data |-> current_data, file |-> file, result |-> FALSE]
    ELSE LET cd == competitor_data_arg[1]
             appended == Append(current_data, StoreRow(cd, cd.company \o ServiceSuffix, summary))
         IN [data |-> appended, file |-> _save_data(appended, file), result |-> TRUE]

\* data_manager.py 51-99; the state of the store is [data, file, result].
\* Without the key 'company', competitor_data['company'] (72) raises KeyError
\* when there is no product, and row['company'] (82) when there is content to
\* summarize: the exception is caught and False returned.  No other key is
\* required.
add_competitor_data(current_data, file, competitor_data_arg, summary) ==
    IF competitor_data_arg = None
    THEN [data |-> current_data, file |-> file, result |-> FALSE]
    ELSE IF /\ competitor_data_arg[1].company = Missing
            /\ \/ competitor_data_arg[1].products = <<>>
               \/ Strip(competitor_data_arg[1].content) # <<>>
    THEN [data |-> current_data, file |-> file, result |-> FALSE]
    ELSE LET cd == competitor_data_arg[1]
             new_df ==
                IF cd.products # <<>>
                THEN [i \in 1..Len(cd.products) |-> StoreRow(cd, cd.products[i], summary)]
                ELSE <<StoreRow(cd, cd.company \o ServiceSuffix, summary)>>
             appended == current_data \o new_df
         IN [data |-> appended, file |-> _save_data(appended, file), result |-> TRUE]

RowsOf(current_data, company) == SelectSeq(current_data, LAMBDA r : r.company = company)

RowsNotOf(current_data, company) == SelectSeq(current_data, LAMBDA r : r.company # company)

\* the new rows are appended and the old ones of the company stay
update_competitor_KeepOld(current_data, file, company, text_content, summary, clock) ==
    LET competitor_rows == RowsOf(current_data, company)
    IN IF current_data = <<>> \/ competitor_rows = <<>>
       THEN [data |-> current_data, file |-> file, result |-> FALSE]
       ELSE LET source_url == competitor_rows[1].source_url
                new_data == scrape_competitor(text_content, source_url, company,
                                              competitor_rows[1].category, clock)
            IN IF source_url # "" /\ new_data # None
               THEN add_competitor_data(current_data, file, new_data, summary)
               ELSE [data |-> current_data, file |-> file, result |-> FALSE]

\* data_manager.py 119-147, called with url=None
update_competitor(current_data, file, company, text_content, summary, clock) ==
    LET competitor_rows == RowsOf(current_data, company)
    IN IF current_data = <<>> \/ competitor_rows = <<>>
       THEN [data |-> current_data, file |-> file, result |-> FALSE]
       ELSE LET source_url == competitor_rows[1].source_url
                new_data == scrape_competitor(text_content, source_url, company,
                                              competitor_rows[1].category, clock)
            IN IF source_url # "" /\ new_data # None
               THEN add_competitor_data(RowsNotOf(current_data, company), file,
                                        new_data, summary)
               ELSE [data |-> current_data, file |-> file, result |-> FALSE]

\* the rows of the company are moved behind the others instead of dropped
remove_competitor_MoveLast(current_data, file, company) ==
    IF current_data = <<>>
    THEN [data |-> current_data, file |-> file, result |-> FALSE]
    ELSE LET kept == RowsNotOf(current_data, company) \o RowsOf(current_data, company)
         IN [data |-> kept, file |-> _save_data(kept, file), result |-> TRUE]

\* data_manager.py 149-162
remove_competitor(current_data, file, company) ==
    IF current_data = <<>>
    THEN [data |-> current_data, file |-> file, result |-> FALSE]
    ELSE LET kept == RowsNotOf(current_data, company)
         IN [data |-> kept, file |-> _save_data(kept, file), result |-> TRUE]

\* DataFrame.drop_duplicates(): the rows in the order of their first copies
RECURSIVE DropDuplicates(_)
DropDuplicates(triples) ==
    IF triples = <<>> THEN <<>>
    ELSE LET init == DropDuplicates(SubSeq(triples, 1, Len(triples) - 1))
             last == triples[Len(triples)]
         IN IF \E i \in 1..Len(init) : init[i] = last THEN init ELSE Append(init, last)

\* current_data[['company', 'source_url', 'category']].drop_duplicates()
RefreshCompanies(current_data) ==
    DropDuplicates([i \in 1..Len(current_data) |->
                       [company |-> current_data[i].company,
                        source_url |-> current_data[i].source_url,
                        category |-> current_data[i].category]])

\* the loop of data_manager.py 178-186 from the i-th company on; pages[i] is
\* what the i-th scrape extracts, at the time clock + i - 1
RECURSIVE RefreshFrom(_, _, _, _, _, _)
RefreshFrom(companies, i, store, pages, summary, clock) ==
    IF i > Len(companies) THEN store
    ELSE LET new_data == scrape_competitor(pages[i], companies[i].source_url,
                                           companies[i].company, companies[i].category,
                                           clock + i - 1)
         IN RefreshFrom(companies, i + 1,
                        IF new_data # None
                        THEN add_competitor_data(store.data, store.file, new_data, summary)
                        ELSE store,
                        pages, summary, clock)

\* data_manager.py 164-192
refresh_all_data(current_data, file, pages, summary, clock) ==
    IF current_data = <<>>
    THEN [data |-> current_data, file |-> file, result |-> FALSE]
    ELSE LET companies == RefreshCompanies(current_data)
             cleared == [data |-> <<>>, file |-> file, result |-> FALSE]
             store == RefreshFrom(companies, 1, cleared, pages, summary, clock)
         IN [store EXCEPT !.result = TRUE]

\* data_manager.py 194-203.  remove_ok: os.remove succeeds; when it raises,
\* the collection has been cleared already and False is returned
clear_all_data(current_data, file, remove_ok) ==
    IF file.exists /\ ~remove_ok
    THEN [data |-> <<>>, file |-> file, result |-> FALSE]
    ELSE [data |-> <<>>, file |-> NoFile, result |-> TRUE]

\* pd.to_datetime of a stored last_updated: the file holds a timestamp as
\* the string of its ISO form, [iso |-> t] here
to_datetime(stored) == stored.iso

\* data_manager.py 21-34: the records of the file with last_updated parsed
\* back to a timestamp; the empty frame when there is no file
_load_data(file) ==
    IF file.exists
    THEN IF HasDatetimeColumn(file.records)
         THEN [i \in 1..Len(file.records) |->
                  [file.records[i] EXCEPT !.last_updated = to_datetime(@)]]
         ELSE file.records
    ELSE <<>>

---------------------------------------------------------------------------
(* The DataManager when a collaborator fails.  A call of a collaborator    *)
(* either returns or raises; a try statement turns what its body raised    *)
(* into what its handler returns.  fault names the collaborator that       *)
(* raises during the call: "fetch" (the scraper), "summarize" (the         *)
(* analyzer), "read", "write" and "remove" (the file system), or "none".   *)

Return(value) == [raised |-> FALSE, value |-> value]
Raise == [raised |-> TRUE, value |-> <<>>]

\* no handler: what the body raised leaves the call
TryExcept_Propagate(body, handler) == body

\* try: body / except Exception: handler
TryExcept(body, handler) == IF body.raised THEN handler ELSE body

\* data_manager.py 21-34: open or json.load raises on a file that is there
\* and cannot be read; the handler falls through to the empty frame
_load_data_try(f, file) ==
    TryExcept(IF file.exists /\ f = "read" THEN Raise ELSE Return(_load_data(file)),
              Return(<<>>))

\* data_manager.py 36-49: open or json.dump raises, the file stays as it was
_save_data_try(f, rows, file) ==
    TryExcept(IF f = "write" /\ ~HasDatetimeColumn(rows) THEN Raise
              ELSE Return(_save_data(rows, file)),
              Return(file))

\* data_manager.py 51-99: the summarizer is called (80) when the content is
\* not blank, before the collection is assigned
add_competitor_data_try(f, current_data, file, competitor_data_arg, summary) ==
    LET unchanged == [data |-> current_data, file |-> file, result |-> FALSE]
    IN IF competitor_data_arg = None THEN Return(unchanged)
       ELSE TryExcept(
              IF f = "summarize" /\ Strip(competitor_data_arg[1].content) # <<>>
              THEN Raise
              ELSE LET added == add_competitor_data(current_data, file,
                                                    competitor_data_arg, summary)
                       saved == _save_data_try(f, added.data, file)
                   IN IF ~added.result THEN Return(added)
                      ELSE IF saved.raised THEN Raise
                      ELSE Return([added EXCEPT !.file = saved.value]),
              Return(unchanged))

\* data_manager.py 119-147: the scraper is called (133) when the company has
\* rows and a source_url; its rows are dropped (138) before the new ones are
\* added
update_competitor_try(f, current_data, file, company, text_content, summary, clock) ==
    LET unchanged == [data |-> current_data, file |-> file, result |-> FALSE]
        competitor_rows == RowsOf(current_data, company)
    IN TryExcept(
         IF current_data = <<>> \/ competitor_rows = <<>> THEN Return(unchanged)
         ELSE IF competitor_rows[1].source_url = "" THEN Return(unchanged)
         ELSE IF f = "fetch" THEN Raise
         ELSE LET new_data == scrape_competitor(text_content, competitor_rows[1].source_url,
                                                company, competitor_rows[1].category, clock)
              IN IF new_data # None
                 THEN add_competitor_data_try(f, RowsNotOf(current_data, company), file, new_data, summary)
                 ELSE Return(unchanged),
         Return(unchanged))

\* data_manager.py 149-162: the collection is assigned (156) before the save
remove_competitor_try(f, current_data, file, company) ==
    LET kept == RowsNotOf(current_data, company)
        saved == _save_data_try(f, kept, file)
    IN TryExcept(
         IF current_data = <<>>
         THEN Return([data |-> current_data, file |-> file, result |-> FALSE])
         ELSE IF saved.raised THEN Raise
         ELSE Return([data |-> kept, file |-> saved.value, result |-> TRUE]),
         Return([data |-> kept, file |-> file, result |-> FALSE]))

\* return True (188) after the loop, unless an exception left it
RefreshLoop(store) == IF store.raised THEN Raise ELSE Return([store.value EXCEPT !.result = TRUE])

\* the loop of data_manager.py 178-186 from the i-th company on, sofar what
\* the loop has come to; what add_competitor_data returns is not looked at
\* (186)
RECURSIVE RefreshFrom_try(_, _, _, _, _, _, _)
RefreshFrom_try(f, companies, i, sofar, pages, summary, clock) ==
    IF sofar.raised \/ i > Len(companies) THEN sofar
    ELSE IF f = "fetch" THEN Raise
    ELSE RefreshFrom_try(f, companies, i + 1,
                         LET new_data == scrape_competitor(pages[i], companies[i].source_url,
                                                           companies[i].company,
                                                           companies[i].category, clock + i - 1)
                         IN IF new_data # None
                            THEN add_competitor_data_try(f, sofar.value.data, sofar.value.file,
                                                         new_data, summary)
                            ELSE sofar,
                         pages, summary, clock)

\* data_manager.py 164-192: the collection is cleared (175) before the first
\* scrape
refresh_all_data_try(f, current_data, file, pages, summary, clock) ==
    LET cleared == [data |-> <<>>, file |-> file, result |-> FALSE]
    IN TryExcept(
         IF current_data = <<>>
         THEN Return([data |-> current_data, file |-> file, result |-> FALSE])
         ELSE RefreshLoop(RefreshFrom_try(f, RefreshCompanies(current_data), 1,
                                          Return(cleared), pages, summary, clock)),
         Return(cleared))

\* data_manager.py 194-203: os.remove raises on the file that is there
clear_all_data_try(f, current_data, file) ==
    TryExcept(IF file.exists /\ f = "remove" THEN Raise
              ELSE Return([data |-> <<>>, file |-> NoFile, result |-> TRUE]),
              Return([data |-> <<>>, file |-> file, result |-> FALSE]))

\* the fallback row of the CRM analysis loop, app.py 243-249; it has no
\* raw_content
FallbackData(comp_name) ==
    [Platform |-> comp_name,
     Entry_Price |-> <<"N", "/", "A">>,
     Notable_Features |-> <<"C", "o", "n", "t", "a", "c", "t", " ", "M", "a", "n", "a", "g", "e", "m", "e", "n", "t", ",", " ", "S", "a", "l", "e", "s", " ", "P", "i", "p", "e", "l", "i", "n", "e">>,
     AI_Automation |-> <<"B", "a", "s", "i", "c", " ", "A", "u", "t", "o", "m", "a", "t", "i", "o", "n">>,
     Target_Market |-> <<"G", "e", "n", "e", "r", "a", "l", " ", "B", "u", "s", "i", "n", "e", "s", "s">>,
     raw_content |-> <<>>]

\* a competitor whose page could not be fetched leaves no row
AnalyzeCompetitor_NoFallback(crm_rows, comp_name, text_content) ==
    LET data == extract_crm_data(text_content, comp_name)
    IN IF data # None THEN Append(crm_rows, data[1]) ELSE crm_rows

\* one pass of the CRM analysis loop, app.py 234-255: extract_crm_data
\* catches every exception of the scrape and of the extractors and returns
\* None, and the loop then appends the fallback row
AnalyzeCompetitor(crm_rows, comp_name, text_content) ==
    LET data == extract_crm_data(text_content, comp_name)
    IN IF data # None THEN Append(crm_rows, data[1])
       ELSE Append(crm_rows, FallbackData(comp_name))

\* one pass of scrape_multiple_competitors, scraper.py 103-125: the i-th
\* competitor is scraped, and a scrape that gave something is appended
ScrapeOneOfMultiple(results, competitor, text_content, clock) ==
    LET scraped == scrape_competitor(text_content, competitor.url, competitor.company,
                                     competitor.category, clock)
    IN IF scraped # None THEN Append(results, scraped[1]) ELSE results

---------------------------------------------------------------------------
(* The variables of the functions that a specification does not exercise   *)

IdleClean == text = <<>> /\ cleaned = <<>>
IdlePrice == price_text = <<>> /\ extracted_price = NoPrice
IdleCategory == arg_company_name = <<>> /\ arg_content = <<>> /\ category = ""
IdleOutliers == arg_data = EmptyFrame /\ arg_column = "" /\ arg_method = "" /\ outliers = EmptyFrame
IdleMetrics == metrics_data = EmptyFrame /\ metrics = NoMetrics
\* no call yet
NoCall == [op |-> "none", company |-> <<>>]

IdleStore ==
    /\ competitor_data = <<>> /\ data_file = NoFile /\ now = 0 /\ result = FALSE
    /\ last_call = NoCall /\ data_before = <<>>
IdleSummary ==
    /\ stats_data = EmptyFrame /\ stats_now = 0
    /\ stats = EmptySummary /\ stats_prev = EmptySummary
    /\ market = NoMetrics /\ market_prev = NoMetrics
IdleProducts == products_content = <<>> /\ products = <<>>
IdleCrm == crm_text = <<>> /\ crm_company_name = <<>> /\ crm_data = None
IdleBatch == batch = <<>> /\ batch_i = 0 /\ batch_fetched = <<>> /\ batch_rows = <<>>
IdleFault == raised = FALSE /\ fault = "none"

---------------------------------------------------------------------------
(* Specification SpecClean: clean_text_content applied to every text over  *)
(* CleanAlphabet of at most MaxCleanLen characters                         *)

MaxCleanLen == 4

\* one representative of each class the two substitutions tell apart
CleanAlphabet == {"a", "7", "_", " ", "\t", "$", "@"}

InitClean ==
    /\ pc = "ready"
    /\ text \in SeqsUpTo(CleanAlphabet, MaxCleanLen)
    /\ cleaned = <<>>
    /\ IdlePrice /\ IdleCategory /\ IdleOutliers /\ IdleMetrics /\ IdleStore
    /\ IdleSummary /\ IdleProducts /\ IdleCrm /\ IdleBatch /\ IdleFault

CleanText ==
    /\ pc = "ready"
    /\ cleaned' = clean_text_content(text)
    /\ pc' = "done"
    /\ UNCHANGED <<text, varsPrice, varsCategory, varsOutliers, varsMetrics, varsStore, varsSummary,
                   varsProducts, varsCrm, varsBatch, varsFault>>

NextClean == CleanText

SpecClean == InitClean /\ [][NextClean]_vars

---------------------------------------------------------------------------
(* Specification SpecPrice: extract_price_from_text applied to every text  *)
(* made of at most MaxPriceChunks of the pieces PriceChunks                *)

MaxPriceChunks == 3

PriceChunks ==
    { <<"$">>, <<"0">>, <<"7", "0">>, <<",", "0", "0", "0", ",", "0", "0", "0">>,
      <<".", "5", "0">>, <<" ">>, <<"U", "S", "D">>, <<"c", "o", "s", "t">>,
      <<"w", "o", "r", "t", "h">> }

PriceTexts == {Concat(cs) : cs \in SeqsUpTo(PriceChunks, MaxPriceChunks)}

InitPrice ==
    /\ pc = "ready"
    /\ price_text \in PriceTexts
    /\ extracted_price = NoPrice
    /\ IdleClean /\ IdleCategory /\ IdleOutliers /\ IdleMetrics /\ IdleStore
    /\ IdleSummary /\ IdleProducts /\ IdleCrm /\ IdleBatch /\ IdleFault

ExtractPrice ==
    /\ pc = "ready"
    /\ extracted_price' = extract_price_from_text(price_text)
    /\ pc' = "done"
    /\ UNCHANGED <<price_text, varsClean, varsCategory, varsOutliers, varsMetrics, varsStore, varsSummary,
                   varsProducts, varsCrm, varsBatch, varsFault>>

NextPrice == ExtractPrice

SpecPrice == InitPrice /\ [][NextPrice]_vars

---------------------------------------------------------------------------
(* Specification SpecCategory: categorize_company applied to a company     *)
(* name of at most MaxNameWords words and a content of at most             *)
(* MaxContentWords words                                                   *)

MaxNameWords == 3
MaxContentWords == 1

NameWords == { <<"A", "c", "m", "e">>, <<"S", "a", "a", "S">>, <<"P", "l", "a", "t", "f", "o", "r", "m">>, <<"S", "h", "o", "p">>, <<"D", "a", "t", "a">> }

ContentWords == { <<"h", "e", "a", "l", "t", "h", "c", "a", "r", "e">>, <<"s", "t", "o", "r", "e">>, <<"d", "a", "t", "a">> }

\* ' '.join(words)
RECURSIVE JoinWords(_)
JoinWords(ws) ==
    IF ws = <<>> THEN <<>>
    ELSE IF Len(ws) = 1 THEN ws[1]
    ELSE ws[1] \o <<" ">> \o JoinWords(Tail(ws))

InitCategory ==
    /\ pc = "ready"
    /\ arg_company_name \in {JoinWords(ws) : ws \in SeqsUpTo(NameWords, MaxNameWords)}
    /\ arg_content \in {JoinWords(ws) : ws \in SeqsUpTo(ContentWords, MaxContentWords)}
    /\ category = ""
    /\ IdleClean /\ IdlePrice /\ IdleOutliers /\ IdleMetrics /\ IdleStore
    /\ IdleSummary /\ IdleProducts /\ IdleCrm /\ IdleBatch /\ IdleFault

CategorizeCompany ==
    /\ pc = "ready"
    /\ category' = categorize_company(arg_company_name, arg_content)
    /\ pc' = "done"
    /\ UNCHANGED <<arg_company_name, arg_content, varsClean, varsPrice, varsOutliers,
                   varsMetrics, varsStore, varsSummary, varsProducts, varsCrm, varsBatch,
                   varsFault>>

NextCategory == CategorizeCompany

SpecCategory == InitCategory /\ [][NextCategory]_vars

---------------------------------------------------------------------------
(* Specification SpecOutliers: detect_outliers applied to every frame of   *)
(* at most MaxOutlierRows rows with a price of OutlierPrices or no price,  *)
(* with and without the price column, for each method                      *)

MaxOutlierRows == 5

OutlierPrices == {10, 20, 1000}

AllColumns == {"company", "price", "last_updated"}

\* the frame with the given prices, one row each, index labels 0..n-1
PriceFrame(columns, prices) ==
    [columns |-> columns,
     rows |-> [i \in 1..Len(prices) |->
                 [idx |-> i - 1, company |-> 1, price |-> prices[i], last_updated |-> 1]]]

OutlierFrames ==
    {PriceFrame(AllColumns, ps) : ps \in SeqsUpTo(OutlierPrices \cup {NoPrice}, MaxOutlierRows)}
    \cup {PriceFrame(AllColumns \ {"price"}, [i \in 1..n |-> NoPrice]) : n \in 0..MaxOutlierRows}

Methods == {"iqr", "zscore", "mad"}

InitOutliers ==
    /\ pc = "ready"
    /\ arg_data \in OutlierFrames
    /\ arg_column = "price"
    /\ arg_method \in Methods
    /\ outliers = EmptyFrame
    /\ IdleClean /\ IdlePrice /\ IdleCategory /\ IdleMetrics /\ IdleStore
    /\ IdleSummary /\ IdleProducts /\ IdleCrm /\ IdleBatch /\ IdleFault

DetectOutliers ==
    /\ pc = "ready"
    /\ outliers' = detect_outliers(arg_data, arg_column, arg_method)
    /\ pc' = "done"
    /\ UNCHANGED <<arg_data, arg_column, arg_method, varsClean, varsPrice, varsCategory,
                   varsMetrics, varsStore, varsSummary, varsProducts, varsCrm, varsBatch,
                   varsFault>>

NextOutliers == DetectOutliers

SpecOutliers == InitOutliers /\ [][NextOutliers]_vars

---------------------------------------------------------------------------
(* Specification SpecMetrics: calculate_market_metrics applied to          *)
(*  - every frame of at most MaxFirmRows rows over MaxFirms companies,     *)
(*    the rows grouped by company (the concentration reads the counts      *)
(*    per company only), without prices, all of one day;                   *)
(*  - every frame of at most MaxTrendRows rows of one company over         *)
(*    MaxDays days, by ascending day, with the prices 100, 105, ... in     *)
(*    row order, the price 100 in every row, or no prices;                 *)
(*  - every frame of at most MaxPricedRows rows of one company and one     *)
(*    day with a price of DispersionPrices or no price in each row.        *)

MaxFirms == 7
MaxFirmRows == 7
MaxDays == 5
MaxTrendRows == 6
MaxPricedRows == 4

\* the non-decreasing sequences of length k over 1..m
RECURSIVE NonDecreasing(_, _)
NonDecreasing(k, m) ==
    IF k = 0 THEN {<<>>}
    ELSE UNION {{Append(q, x) : x \in (IF q = <<>> THEN 1 ELSE q[Len(q)])..m}
                    : q \in NonDecreasing(k - 1, m)}

FirmFrames ==
    {[columns |-> AllColumns,
      rows |-> [i \in 1..Len(q) |->
                  [idx |-> i - 1, company |-> q[i], price |-> NoPrice, last_updated |-> 1]]]
        : q \in UNION {NonDecreasing(k, MaxFirms) : k \in 0..MaxFirmRows}}

PriceProfiles == {"rising", "flat", "none"}

ProfilePrice(profile, i) ==
    IF profile = "rising" THEN 100 + 5 * (i - 1)
    ELSE IF profile = "flat" THEN 100
    ELSE NoPrice

TrendFrames ==
    {[columns |-> AllColumns,
      rows |-> [i \in 1..Len(q) |->
                  [idx |-> i - 1, company |-> 1, price |-> ProfilePrice(profile, i),
                   last_updated |-> q[i]]]]
        : q \in UNION {NonDecreasing(k, MaxDays) : k \in 1..MaxTrendRows},
          profile \in PriceProfiles}

\* a price of 0 is what "$0" or "free: $0" scrapes to
DispersionPrices == {0, 10, 15, 100}

DispersionFrames ==
    {PriceFrame(AllColumns, ps) : ps \in SeqsUpTo(DispersionPrices \cup {NoPrice}, MaxPricedRows)}

InitMetrics ==
    /\ pc = "ready"
    /\ metrics_data \in FirmFrames \cup TrendFrames \cup DispersionFrames
    /\ metrics = NoMetrics
    /\ IdleClean /\ IdlePrice /\ IdleCategory /\ IdleOutliers /\ IdleStore
    /\ IdleSummary /\ IdleProducts /\ IdleCrm /\ IdleBatch /\ IdleFault

CalculateMarketMetrics ==
    /\ pc = "ready"
    /\ metrics' = calculate_market_metrics(metrics_data)
    /\ pc' = "done"
    /\ UNCHANGED <<metrics_data, varsClean, varsPrice, varsCategory, varsOutliers,
                   varsStore, varsSummary, varsProducts, varsCrm, varsBatch, varsFault>>

NextMetrics == CalculateMarketMetrics

SpecMetrics == InitMetrics /\ [][NextMetrics]_vars

---------------------------------------------------------------------------
(* Specification Spec: the record store.  Each call of the DataManager is  *)
(* one step; a scrape fetches whichever page the site serves at that       *)
(* moment (or nothing), and the clock advances with every scrape.          *)

\* the number of scrapes of a run
MaxScrapes == 3

Acme == <<"A", "c", "m", "e">>
Globex == <<"G", "l", "o", "b", "e", "x">>

Companies == {Acme, Globex}

CompanyUrl(company) == IF company = Acme THEN "https://acme.example/pricing"
                       ELSE "https://globex.example/pricing"

\* the category argument of a scrape: none given for Acme, a category for
\* Globex
CompanyCategory(company) == IF company = Acme THEN "" ELSE "SaaS"

\* what the extraction of a fetched page can give
PageTexts ==
    { <<"$", "7", "0", ",", "0", "0", "0", ",", "0", "0", "0">>,
      <<"P", "r", "i", "c", "e", ":", " ", "$", "4", "9">>,
      <<"A", "c", "m", "e", " ", "t", "o", "o", "l", " ", "B", "e", "t", "a", " ", "a", "p", "p">> }

\* the pages a site can serve: Acme's names products or a price, Globex's a
\* price beyond the documented bound
PagesOf(company) ==
    IF company = Acme THEN {t \in PageTexts : t[1] \in {"P", "A"}}
    ELSE {t \in PageTexts : t[1] = "$"}

\* <<>> : the fetch or the extraction failed
FetchResults(company) == PagesOf(company) \cup {<<>>}

\* one fetch result for each company of a refresh
RefreshPages(companies) ==
    {pages \in [1..Len(companies) -> UNION {FetchResults(c) : c \in Companies}] :
        \A i \in 1..Len(companies) : pages[i] \in FetchResults(companies[i].company)}

\* what the summarizer can return: a summary, or its failure message
Summaries == {"summary", "Error generating summary"}

Init ==
    /\ pc = "ready"
    /\ competitor_data = <<>>
    /\ data_file \in {NoFile, [exists |-> TRUE, records |-> <<>>]}
    /\ now = 0
    /\ result = FALSE
    /\ last_call = NoCall
    /\ data_before = <<>>
    /\ IdleClean /\ IdlePrice /\ IdleCategory /\ IdleOutliers /\ IdleMetrics
    /\ IdleSummary /\ IdleProducts /\ IdleCrm /\ IdleBatch /\ IdleFault

Apply(op, company, next) ==
    /\ last_call' = [op |-> op, company |-> company]
    /\ data_before' = competitor_data
    /\ competitor_data' = next.data
    /\ data_file' = next.file
    /\ result' = next.result

\* a competitor is scraped and the scrape handed to add_competitor_data
AddCompetitor(company, category_arg, text_content, summary) ==
    /\ now < MaxScrapes
    /\ Apply("add_competitor_data", company,
             add_competitor_data(competitor_data, data_file,
                                 scrape_competitor(text_content, CompanyUrl(company),
                                                   company, category_arg, now),
                                 summary))
    /\ now' = now + 1
    /\ UNCHANGED <<pc, varsClean, varsPrice, varsCategory, varsOutliers, varsMetrics, varsSummary, varsProducts,
                   varsCrm, varsBatch, varsFault>>

UpdateCompetitor(company, text_content, summary) ==
    /\ now < MaxScrapes
    /\ Apply("update_competitor", company,
             update_competitor(competitor_data, data_file, company, text_content,
                               summary, now))
    /\ now' = now + 1
    /\ UNCHANGED <<pc, varsClean, varsPrice, varsCategory, varsOutliers, varsMetrics, varsSummary, varsProducts,
                   varsCrm, varsBatch, varsFault>>

RemoveCompetitor(company) ==
    /\ Apply("remove_competitor", company,
             remove_competitor(competitor_data, data_file, company))
    /\ UNCHANGED <<now, pc, varsClean, varsPrice, varsCategory, varsOutliers, varsMetrics, varsSummary,
                   varsProducts, varsCrm, varsBatch, varsFault>>

\* every company of the store is scraped again
RefreshAllData(pages, summary) ==
    /\ now + Len(pages) <= MaxScrapes
    /\ Apply("refresh_all_data", <<>>,
             refresh_all_data(competitor_data, data_file, pages, summary, now))
    /\ now' = now + Len(pages)
    /\ UNCHANGED <<pc, varsClean, varsPrice, varsCategory, varsOutliers, varsMetrics,
                   varsSummary, varsProducts, varsCrm, varsBatch, varsFault>>

ClearAllData(remove_ok) ==
    /\ Apply("clear_all_data", <<>>,
             clear_all_data(competitor_data, data_file, remove_ok))
    /\ UNCHANGED <<now, pc, varsClean, varsPrice, varsCategory, varsOutliers, varsMetrics, varsSummary,
                   varsProducts, varsCrm, varsBatch, varsFault>>

Next ==
    \/ \E company \in Companies :
          \E text_content \in FetchResults(company), summary \in Summaries :
            AddCompetitor(company, CompanyCategory(company), text_content, summary)
    \/ \E company \in Companies :
          \E text_content \in FetchResults(company), summary \in Summaries :
            UpdateCompetitor(company, text_content, summary)
    \/ \E company \in Companies : RemoveCompetitor(company)
    \/ \E pages \in RefreshPages(RefreshCompanies(competitor_data)), summary \in Summaries :
            RefreshAllData(pages, summary)
    \/ \E remove_ok \in BOOLEAN : ClearAllData(remove_ok)

Spec == Init /\ [][Next]_vars

---------------------------------------------------------------------------
(* Specification SpecRecords: the record store when its caller hands       *)
(* dictionaries of its own to add_competitor_data, at most MaxRecordCalls  *)
(* of them: with or without a company, a time stamp, a content and a       *)
(* product.                                                                *)

MaxRecordCalls == 2

RecordDicts(clock) ==
    [company : {Acme, Missing},
     source_url : {CompanyUrl(Acme)},
     category : {"Unknown"},
     last_updated : {clock, NoTimestamp},
     content : {<<>>, <<"P", "r", "i", "c", "e", ":", " ", "$", "4", "9">>},
     price : {NoPrice},
     products : {<<>>, << <<"B", "e", "t", "a", " ", "a", "p", "p">> >>}]

AddRecord(record, summary) ==
    /\ now < MaxRecordCalls
    /\ Apply("add_competitor_data", record.company,
             add_competitor_data(competitor_data, data_file, <<record>>, summary))
    /\ now' = now + 1
    /\ UNCHANGED <<pc, varsClean, varsPrice, varsCategory, varsOutliers, varsMetrics,
                   varsSummary, varsProducts, varsCrm, varsBatch, varsFault>>

NextRecords ==
    \/ \E record \in RecordDicts(now), summary \in Summaries : AddRecord(record, summary)
    \/ \E company \in Companies : RemoveCompetitor(company)
    \/ \E remove_ok \in BOOLEAN : ClearAllData(remove_ok)

SpecRecords == Init /\ [][NextRecords]_vars

---------------------------------------------------------------------------
---------------------------------------------------------------------------
(* Specification SpecZScore: detect_outliers on frames of up to MaxZRows   *)
(* rows whose price is low, high or missing, by the methods 'zscore' and   *)
(* 'iqr'.                                                                  *)

MaxZRows == 9

ZPrices == {10, 1000}

\* the frames of up to n rows
ZFrames(n) == {PriceFrame(AllColumns, ps) : ps \in SeqsUpTo(ZPrices \cup {NoPrice}, n)}

InitZScore ==
    /\ pc = "ready"
    /\ arg_data \in ZFrames(MaxZRows)
    /\ arg_column = "price"
    /\ arg_method \in {"zscore", "iqr"}
    /\ outliers = EmptyFrame
    /\ IdleClean /\ IdlePrice /\ IdleCategory /\ IdleMetrics /\ IdleStore
    /\ IdleSummary /\ IdleProducts /\ IdleCrm /\ IdleBatch /\ IdleFault

NextZScore == DetectOutliers

SpecZScore == InitZScore /\ [][NextZScore]_vars

---------------------------------------------------------------------------
(* Specification SpecFaults: the record store from its start-up on, when   *)
(* any one collaborator may raise during a call.  The file found at        *)
(* start-up is absent, empty, or holds a record saved without time stamp.  *)

\* the number of scrapes of a run with failing collaborators
MaxFaultScrapes == 2

Faults == {"none", "fetch", "summarize", "read", "write", "remove"}

\* the collaborators a call uses, and "none"
FaultsOf(op) ==
    {f \in Faults :
        \/ f = "none"
        \/ f = "read" /\ op = "_load_data"
        \/ f = "remove" /\ op = "clear_all_data"
        \/ f = "fetch" /\ op \in {"update_competitor", "refresh_all_data"}
        \/ f = "summarize" /\ op \in {"add_competitor_data", "update_competitor",
                                         "refresh_all_data"}
        \/ f = "write" /\ op \in {"add_competitor_data", "update_competitor",
                                     "remove_competitor", "refresh_all_data"}}

StoredRecord ==
    [company |-> Globex, source_url |-> CompanyUrl(Globex), category |-> "SaaS",
     last_updated |-> NoTimestamp, content |-> <<>>, price |-> NoPrice,
     product_name |-> Globex \o ServiceSuffix, summary |-> NoSummary]

FilesAtStartup ==
    {NoFile, [exists |-> TRUE, records |-> <<>>], [exists |-> TRUE, records |-> <<StoredRecord>>]}

InitFaults ==
    /\ pc = "startup"
    /\ competitor_data = <<>>
    /\ data_file \in FilesAtStartup
    /\ now = 0
    /\ result = FALSE
    /\ last_call = NoCall
    /\ data_before = <<>>
    /\ IdleFault
    /\ IdleClean /\ IdlePrice /\ IdleCategory /\ IdleOutliers /\ IdleMetrics
    /\ IdleSummary /\ IdleProducts /\ IdleCrm /\ IdleBatch

\* the call op under the fault f came to outcome: what it returned is
\* applied, and nothing when an exception left it
Outcome(op, company, f, outcome) ==
    /\ fault' = f
    /\ raised' = outcome.raised
    /\ last_call' = [op |-> op, company |-> company]
    /\ data_before' = competitor_data
    /\ IF outcome.raised
       THEN UNCHANGED <<competitor_data, data_file, result>>
       ELSE /\ competitor_data' = outcome.value.data
            /\ data_file' = outcome.value.file
            /\ result' = outcome.value.result

\* DataManager.__init__ (10-19): the collection is loaded from the file
StartUp(f) ==
    /\ pc = "startup"
    /\ pc' = "ready"
    /\ LET loaded == _load_data_try(f, data_file)
       IN Outcome("_load_data", <<>>, f,
                  IF loaded.raised THEN Raise
                  ELSE Return([data |-> loaded.value, file |-> data_file, result |-> FALSE]))
    /\ UNCHANGED <<now, varsClean, varsPrice, varsCategory, varsOutliers, varsMetrics,
                   varsSummary, varsProducts, varsCrm, varsBatch>>

AddCall(f, company, text_content, summary) ==
    /\ pc = "ready"
    /\ now < MaxFaultScrapes
    /\ Outcome("add_competitor_data", company, f,
               add_competitor_data_try(f, competitor_data, data_file,
                                       scrape_competitor(text_content, CompanyUrl(company),
                                                         company, CompanyCategory(company), now),
                                       summary))
    /\ now' = now + 1
    /\ UNCHANGED <<pc, varsClean, varsPrice, varsCategory, varsOutliers, varsMetrics,
                   varsSummary, varsProducts, varsCrm, varsBatch>>

UpdateCall(f, company, text_content, summary) ==
    /\ pc = "ready"
    /\ now < MaxFaultScrapes
    /\ Outcome("update_competitor", company, f,
               update_competitor_try(f, competitor_data, data_file, company, text_content,
                                     summary, now))
    /\ now' = now + 1
    /\ UNCHANGED <<pc, varsClean, varsPrice, varsCategory, varsOutliers, varsMetrics,
                   varsSummary, varsProducts, varsCrm, varsBatch>>

RemoveCall(f, company) ==
    /\ pc = "ready"
    /\ Outcome("remove_competitor", company, f,
               remove_competitor_try(f, competitor_data, data_file, company))
    /\ UNCHANGED <<now, pc, varsClean, varsPrice, varsCategory, varsOutliers, varsMetrics,
                   varsSummary, varsProducts, varsCrm, varsBatch>>

RefreshCall(f, pages, summary) ==
    /\ pc = "ready"
    /\ now + Len(pages) <= MaxFaultScrapes
    /\ Outcome("refresh_all_data", <<>>, f,
               refresh_all_data_try(f, competitor_data, data_file, pages, summary, now))
    /\ now' = now + Len(pages)
    /\ UNCHANGED <<pc, varsClean, varsPrice, varsCategory, varsOutliers, varsMetrics,
                   varsSummary, varsProducts, varsCrm, varsBatch>>

ClearCall(f) ==
    /\ pc = "ready"
    /\ Outcome("clear_all_data", <<>>, f, clear_all_data_try(f, competitor_data, data_file))
    /\ UNCHANGED <<now, pc, varsClean, varsPrice, varsCategory, varsOutliers, varsMetrics,
                   varsSummary, varsProducts, varsCrm, varsBatch>>

NextFaults ==
    \/ \E f \in FaultsOf("_load_data") : StartUp(f)
    \/ \E f \in FaultsOf("add_competitor_data"), company \in Companies :
          \E text_content \in FetchResults(company), summary \in Summaries :
            AddCall(f, company, text_content, summary)
    \/ \E f \in FaultsOf("update_competitor"), company \in Companies :
          \E text_content \in FetchResults(company), summary \in Summaries :
            UpdateCall(f, company, text_content, summary)
    \/ \E f \in FaultsOf("remove_competitor"), company \in Companies : RemoveCall(f, company)
    \/ \E f \in FaultsOf("refresh_all_data"), summary \in Summaries :
          \E pages \in RefreshPages(RefreshCompanies(competitor_data)) :
            RefreshCall(f, pages, summary)
    \/ \E f \in FaultsOf("clear_all_data") : ClearCall(f)

SpecFaults == InitFaults /\ [][NextFaults]_vars

---------------------------------------------------------------------------
(* Specification SpecSummary: generate_summary_stats and                   *)
(* calculate_market_metrics called twice each on one frame of at most      *)
(* MaxStatsRows rows, while the clock moves on between the calls.          *)

MaxStatsRows == 2

\* the last day of the clock; the rows are of the days 1 and 2
MaxStatsDay == 10

StatsColumns == AllColumns \cup {"category"}

StatsRows ==
    [company : {1, 2}, price : {NoPrice, 10, 30}, last_updated : {1, 2},
     category : {"SaaS", "CRM"}]

\* with every column, and, for rows without a price, without the price column
StatsFrames ==
    LET frame(columns, rs) ==
            [columns |-> columns,
             rows |-> [i \in 1..Len(rs) |->
                         [idx |-> i - 1, company |-> rs[i].company, price |-> rs[i].price,
                          last_updated |-> rs[i].last_updated, category |-> rs[i].category]]]
    IN {frame(StatsColumns, rs) : rs \in SeqsUpTo(StatsRows, MaxStatsRows)}
       \cup {frame(StatsColumns \ {"price"}, rs) :
                rs \in {q \in SeqsUpTo(StatsRows, MaxStatsRows) :
                           \A i \in 1..Len(q) : q[i].price = NoPrice}}

InitSummary ==
    /\ pc = "ready"
    /\ stats_data \in StatsFrames
    /\ stats_now \in (RecentDays + 1)..MaxStatsDay
    /\ stats = EmptySummary /\ stats_prev = EmptySummary
    /\ market = NoMetrics /\ market_prev = NoMetrics
    /\ IdleClean /\ IdlePrice /\ IdleCategory /\ IdleOutliers /\ IdleMetrics
    /\ IdleStore /\ IdleProducts /\ IdleCrm /\ IdleBatch /\ IdleFault

\* the metrics are recomputed from the frame: one call of each function;
\* pc counts the recomputations: "ready", "once", "twice"
RecomputeMetrics ==
    /\ pc \in {"ready", "once"}
    /\ stats' = generate_summary_stats(stats_data, stats_now)
    /\ stats_prev' = stats
    /\ market' = calculate_market_metrics(stats_data)
    /\ market_prev' = market
    /\ pc' = IF pc = "ready" THEN "once" ELSE "twice"
    /\ UNCHANGED <<stats_data, stats_now, varsClean, varsPrice, varsCategory, varsOutliers,
                   varsMetrics, varsStore, varsProducts, varsCrm, varsBatch, varsFault>>

\* time passes
Tick ==
    /\ stats_now < MaxStatsDay
    /\ stats_now' = stats_now + 1
    /\ UNCHANGED <<pc, stats_data, stats, stats_prev, market, market_prev, varsClean,
                   varsPrice, varsCategory, varsOutliers, varsMetrics, varsStore,
                   varsProducts, varsCrm, varsBatch, varsFault>>

NextSummary == RecomputeMetrics \/ Tick

SpecSummary == InitSummary /\ [][NextSummary]_vars

---------------------------------------------------------------------------
(* Specification SpecProducts: _extract_products applied to                *)
(*  - every text of at most MaxMentions of the pieces Mentions;            *)
(*  - the texts that name up to MaxCatalogue products of the catalogue     *)
(*    ProductNames one after the other, from any of them on and around,    *)
(*    with the first one named once or twice.                              *)

MaxMentions == 3
MaxCatalogue == 7

Mentions ==
    { <<"A", "b", "c", " ", "a", "p", "p", ".", " ">>, <<"X", "y", "z", " ", "t", "o", "o", "l", ".", " ">>, <<"a", "b", "c", " ", "a", "p", "p", ".", " ">>, <<"p", "r", "o", "d", "u", "c", "t", ":", " ", "A", "b", "c", ".", " ">>, <<"p", "r", "o", "d", "u", "c", "t", "s", ":", " ", "A", "b", " ", ".", " ">>,
      <<"l", "a", "u", "n", "c", "h", "i", "n", "g", " ", "X", "y", "z", " ", "t", "o", "o", "l", ".", " ">> }

ProductNames == << <<"A", "a", "a">>, <<"B", "b", "b">>, <<"C", "c", "c">>, <<"D", "d", "d">>, <<"E", "e", "e">>, <<"F", "f", "f">>, <<"G", "g", "g">> >>

\* the names s, s+1, ... of the catalogue, l of them
CatalogueText(s, l, twice) ==
    LET names == [i \in 1..l |-> ProductNames[((s + i - 2) % Len(ProductNames)) + 1]]
        mention(name) == name \o <<" ", "a", "p", "p", ".", " ">>
    IN (IF twice /\ l > 0 THEN mention(names[1]) ELSE <<>>)
       \o Concat([i \in 1..l |-> mention(names[i])])

ProductTexts ==
    {Concat(ms) : ms \in SeqsUpTo(Mentions, MaxMentions)}
    \cup {CatalogueText(s, l, twice) :
             s \in 1..Len(ProductNames), l \in 0..MaxCatalogue, twice \in BOOLEAN}

InitProducts ==
    /\ pc = "ready"
    /\ products_content \in ProductTexts
    /\ products = <<>>
    /\ IdleClean /\ IdlePrice /\ IdleCategory /\ IdleOutliers /\ IdleMetrics
    /\ IdleStore /\ IdleSummary /\ IdleCrm /\ IdleBatch /\ IdleFault

ExtractProducts ==
    /\ pc = "ready"
    /\ products' = _extract_products(products_content)
    /\ pc' = "done"
    /\ UNCHANGED <<products_content, varsClean, varsPrice, varsCategory, varsOutliers,
                   varsMetrics, varsStore, varsSummary, varsCrm, varsBatch, varsFault>>

NextProducts == ExtractProducts

SpecProducts == InitProducts /\ [][NextProducts]_vars

---------------------------------------------------------------------------
(* Specification SpecCrm: extract_crm_data applied to the company names    *)
(* CrmCompanies and to the page texts made of at most MaxCrmPieces of the  *)
(* pieces PricePieces, or of the pieces KeywordPieces, in their order.     *)

MaxCrmPieces == 5

CrmCompanies ==
    { <<"S", "a", "l", "e", "s", "f", "o", "r", "c", "e">>, <<"H", "u", "b", "S", "p", "o", "t", " ", "C", "R", "M">>, <<"C", "l", "o", "s", "e", " ", "b", "y", " ", "S", "a", "l", "e", "s", "f", "o", "r", "c", "e">>, <<"A", "c", "m", "e">>, <<"M", "o", "n", "d", "a", "y">> }

PricePieces ==
    << <<"F", "r", "e", "e", " ">>, <<"S", "t", "a", "r", "t", "i", "n", "g", " ", "a", "t", " ">>, <<"f", "r", "o", "m", " ">>, <<"$">>, <<"2", "5">>, <<".", "5", "0">>, <<" ", "p", "e", "r", " ", "u", "s", "e", "r">>, <<"/", "u", "s", "e", "r">>, <<"/", "m", "o">>, <<"\n">> >>

KeywordPieces ==
    << <<"A", "I", " ">>, <<"m", "a", "c", "h", "i", "n", "e", " ", "l", "e", "a", "r", "n", "i", "n", "g", " ">>, <<"A", "u", "t", "o", "m", "a", "t", "i", "o", "n", " ">>, <<"p", "r", "e", "d", "i", "c", "t", "i", "v", "e", " ">>, <<"s", "m", "a", "r", "t", " ">>, <<"l", "e", "a", "d", " ">>, <<"c", "o", "n", "t", "a", "c", "t", " ">>,
       <<"p", "i", "p", "e", "l", "i", "n", "e", " ">>, <<"e", "m", "a", "i", "l", " ">>, <<"r", "e", "p", "o", "r", "t", "i", "n", "g", " ">>, <<"m", "o", "b", "i", "l", "e", " ">> >>

\* the pieces of ps at the positions S, in their order
RECURSIVE PiecesAt(_, _, _)
PiecesAt(ps, S, i) ==
    IF i > Len(ps) THEN <<>>
    ELSE (IF i \in S THEN ps[i] ELSE <<>>) \o PiecesAt(ps, S, i + 1)

CrmTextsOf(ps) ==
    {PiecesAt(ps, S, 1) : S \in {T \in SUBSET (1..Len(ps)) : Cardinality(T) <= MaxCrmPieces}}

CrmTexts == CrmTextsOf(PricePieces) \cup CrmTextsOf(KeywordPieces)

InitCrm ==
    /\ pc = "ready"
    /\ crm_text \in CrmTexts
    /\ crm_company_name \in CrmCompanies
    /\ crm_data = None
    /\ IdleClean /\ IdlePrice /\ IdleCategory /\ IdleOutliers /\ IdleMetrics
    /\ IdleStore /\ IdleSummary /\ IdleProducts /\ IdleBatch /\ IdleFault

ExtractCrmData ==
    /\ pc = "ready"
    /\ crm_data' = extract_crm_data(crm_text, crm_company_name)
    /\ pc' = "done"
    /\ UNCHANGED <<crm_text, crm_company_name, varsClean, varsPrice, varsCategory,
                   varsOutliers, varsMetrics, varsStore, varsSummary, varsProducts, varsBatch,
                   varsFault>>

NextCrm == ExtractCrmData

SpecCrm == InitCrm /\ [][NextCrm]_vars

---------------------------------------------------------------------------
(* Specification SpecBatch: a batch run over at most MaxBatch competitors, *)
(* either the CRM analysis loop of app.py (pc = "analyze") or              *)
(* scrape_multiple_competitors (pc = "scrape"); each fetch gives one of    *)
(* the pages BatchPages or fails.                                          *)

MaxBatch == 3

BatchCompanies == { <<"S", "a", "l", "e", "s", "f", "o", "r", "c", "e">>, <<"Z", "o", "h", "o", " ", "C", "R", "M">>, <<"A", "c", "m", "e">> }

BatchPages == { <<"$", "2", "5", "/", "m", "o">>, <<"s", "m", "a", "r", "t", " ", "l", "e", "a", "d", " ", "a", "p", "p">> }

BatchCompetitor(company) ==
    [company |-> company, url |-> "https://example.com/pricing", category |-> "CRM"]

InitBatch ==
    /\ pc \in {"analyze", "scrape"}
    /\ batch \in SeqsUpTo(BatchCompanies, MaxBatch)
    /\ batch_i = 0
    /\ batch_fetched = <<>>
    /\ batch_rows = <<>>
    /\ IdleClean /\ IdlePrice /\ IdleCategory /\ IdleOutliers /\ IdleMetrics
    /\ IdleStore /\ IdleSummary /\ IdleProducts /\ IdleCrm /\ IdleFault

\* the CRM analysis loop goes through its next competitor
AnalyzeNext(text_content) ==
    /\ pc = "analyze"
    /\ batch_i < Len(batch)
    /\ batch_i' = batch_i + 1
    /\ batch_fetched' = Append(batch_fetched, text_content)
    /\ batch_rows' = AnalyzeCompetitor(batch_rows, batch[batch_i + 1], text_content)
    /\ UNCHANGED <<pc, batch, varsClean, varsPrice, varsCategory, varsOutliers,
                   varsMetrics, varsStore, varsSummary, varsProducts, varsCrm, varsFault>>

\* scrape_multiple_competitors goes through its next competitor
ScrapeNext(text_content) ==
    /\ pc = "scrape"
    /\ batch_i < Len(batch)
    /\ batch_i' = batch_i + 1
    /\ batch_fetched' = Append(batch_fetched, text_content)
    /\ batch_rows' = ScrapeOneOfMultiple(batch_rows, BatchCompetitor(batch[batch_i + 1]),
                                         text_content, batch_i)
    /\ UNCHANGED <<pc, batch, varsClean, varsPrice, varsCategory, varsOutliers,
                   varsMetrics, varsStore, varsSummary, varsProducts, varsCrm, varsFault>>

\* the loop is over
EndBatch ==
    /\ pc \in {"analyze", "scrape"}
    /\ batch_i = Len(batch)
    /\ pc' = IF pc = "analyze" THEN "analyzed" ELSE "scraped"
    /\ UNCHANGED <<varsBatch, varsClean, varsPrice, varsCategory, varsOutliers,
                   varsMetrics, varsStore, varsSummary, varsProducts, varsCrm, varsFault>>

NextBatch ==
    \/ \E text_content \in BatchPages \cup {<<>>} : AnalyzeNext(text_content)
    \/ \E text_content \in BatchPages \cup {<<>>} : ScrapeNext(text_content)
    \/ EndBatch

SpecBatch == InitBatch /\ [][NextBatch]_vars

---------------------------------------------------------------------------
(* Specification SpecExtractors: the four field extractors of app.py       *)
(* called one after the other on a company name of CrmCompanies and on a   *)
(* content of CrmTexts, or on the content None.                            *)

InitExtractors ==
    /\ pc = "ready"
    /\ crm_text \in CrmTexts \cup {NullContent}
    /\ crm_company_name \in CrmCompanies
    /\ crm_data = None
    /\ IdleClean /\ IdlePrice /\ IdleCategory /\ IdleOutliers /\ IdleMetrics
    /\ IdleStore /\ IdleSummary /\ IdleProducts /\ IdleBatch /\ IdleFault

\* what each extractor returns, or the exception it raises
ExtractFields ==
    /\ pc = "ready"
    /\ crm_data' = << [Platform |-> crm_company_name,
                       Entry_Price |-> extract_entry_price(crm_text, crm_company_name),
                       Notable_Features |-> extract_crm_features(crm_text, crm_company_name),
                       AI_Automation |-> extract_ai_capabilities(crm_text, crm_company_name),
                       Target_Market |-> determine_target_market(crm_text, crm_company_name),
                       raw_content |-> crm_text] >>
    /\ pc' = "extracted"
    /\ UNCHANGED <<crm_text, crm_company_name, varsClean, varsPrice, varsCategory,
                   varsOutliers, varsMetrics, varsStore, varsSummary, varsProducts,
                   varsBatch, varsFault>>

NextExtractors == ExtractFields

SpecExtractors == InitExtractors /\ [][NextExtractors]_vars

---------------------------------------------------------------------------
\* alphanumerics, space and . , ! ? $ % - ( )
AllowList == Letters \cup Digits \cup {" ", ".", ",", "!", "?", "$", "%", "-", "(", ")"}

NoSpaceRun(s) == \A i \in 1..(Len(s) - 1) : ~(s[i] = " " /\ s[i + 1] = " ")

\* C1: for every text, the cleaned string has no run of two or more
\* consecutive spaces and holds no character outside the allow-list
C1_CleanedIsNormalized ==
    pc = "done" => NoSpaceRun(cleaned) /\ Range(cleaned) \subseteq AllowList

\* the two halves of C1, each violated on its own
C1_NoSpaceRun == pc = "done" => NoSpaceRun(cleaned)

C1_OnlyAllowList == pc = "done" => Range(cleaned) \subseteq AllowList

---------------------------------------------------------------------------
(* What each pattern finds in a text, for the statements about             *)
(* extract_price_from_text                                                 *)

NoMatch == -3

\* per pattern, its first match in t with comma grouping removed, in cents
\* (NoMatch when the pattern matches nowhere in t)
FirstMatches(t) ==
    [k \in 1..Len(price_patterns) |->
        LET matches == findall(price_patterns[k], t)
        IN IF matches = <<>> THEN NoMatch ELSE float(RemoveCommas(matches[1]))]

MatchingPatterns(fm) == {k \in DOMAIN fm : fm[k] # NoMatch}

InRangePatterns(fm) == {k \in DOMAIN fm : InPriceRange(fm[k])}

Lowest(K) == CHOOSE k \in K : \A j \in K : k <= j

\* t is "$NN.NN"
IsDollarNNdotNN(t) ==
    /\ Len(t) = 6
    /\ t[1] = "$" /\ t[4] = "."
    /\ {t[2], t[3], t[5], t[6]} \subseteq Digits

\* s is an amount written out: digits, ungrouped or in comma groups of
\* three, with an optional two-digit fraction
IsAmount(s) ==
    LET dots == {i \in 1..Len(s) : s[i] = "."}
        dot == IF dots = {} THEN Len(s) + 1 ELSE CHOOSE i \in dots : TRUE
        whole == SubSeq(s, 1, dot - 1)
        commas == {i \in 1..Len(whole) : whole[i] = ","}
    IN /\ Cardinality(dots) <= 1
       /\ dots # {} => Len(s) = dot + 2
       /\ whole # <<>>
       /\ \A i \in 1..Len(s) : s[i] \in Digits \cup {",", "."}
       /\ whole[1] # ","
       /\ commas # {} =>
            /\ \A i \in commas : (Len(whole) - i) % 4 = 3
            /\ \A i \in 1..Len(whole) : (Len(whole) - i) % 4 = 3 => i \in commas

\* t is "$" followed by an amount written out, and nothing else
DescribesPrice(t) == Len(t) >= 2 /\ t[1] = "$" /\ IsAmount(Tail(t))

DescribedCents(t) == float(RemoveCommas(Tail(t)))

\* C2: for a string "$NN.NN" with a value in [0.01, 1000000] the value
\* NN.NN is returned, and for a string that describes a price outside
\* [0.01, 1000000] None is returned
C2_DollarStringPrice ==
    pc = "done" =>
        /\ (IsDollarNNdotNN(price_text) /\ InPriceRange(DescribedCents(price_text)))
              => extracted_price = DescribedCents(price_text)
        /\ (DescribesPrice(price_text) /\ ~InPriceRange(DescribedCents(price_text)))
              => extracted_price = NoPrice

\* the first half of C2 alone
C2_InRangeDollarString ==
    (pc = "done" /\ IsDollarNNdotNN(price_text)
        /\ InPriceRange(DescribedCents(price_text)))
    => extracted_price = DescribedCents(price_text)

C4_InRangeOrNone ==
    pc = "done" =>
        /\ extracted_price = NoPrice \/ InPriceRange(extracted_price)
        /\ extracted_price # ValueError
        /\ extracted_price = NoPrice => InRangePatterns(FirstMatches(price_text)) = {}

\* every first match is out of range and None is returned
C4_Witness ==
    /\ pc = "done"
    /\ LET fm == FirstMatches(price_text)
       IN MatchingPatterns(fm) # {} /\ InRangePatterns(fm) = {}
    /\ extracted_price = NoPrice


---------------------------------------------------------------------------
\* C5: in every record produced by scrape_competitor and held in the record
\* store, price is absent or a non-negative number no greater than 1,000,000
C5_StoredPriceInBound ==
    \A i \in 1..Len(competitor_data) :
        \/ competitor_data[i].price = NoPrice
        \/ (0 <= competitor_data[i].price /\ competitor_data[i].price <= MaxPriceCents)

---------------------------------------------------------------------------
\* the number of keywords of category c (an index into category_keywords)
\* that occur in the lower-cased "company name + content" string
C6_Hits(c) ==
    Cardinality({j \in 1..Len(category_keywords[c][2]) :
                    Contains(lower(arg_company_name) \o <<" ">> \o lower(arg_content),
                             category_keywords[c][2][j])})

C6_Expected ==
    IF \A c \in 1..Len(category_keywords) : C6_Hits(c) = 0 THEN "Other"
    ELSE category_keywords[CHOOSE c \in 1..Len(category_keywords) :
                              /\ \A d \in 1..Len(category_keywords) : C6_Hits(d) <= C6_Hits(c)
                              /\ \A d \in 1..(c - 1) : C6_Hits(d) < C6_Hits(c)][1]

\* C6: categorize_company returns the category with the most keywords
\* occurring in the lower-cased name and content, the first such category of
\* the mapping on a tie, and "Other" when no keyword occurs; ("Acme SaaS
\* Platform", "") gives "SaaS" and ("Acme", "") gives "Other"
C6_MostKeywordsFirstOnTie ==
    pc = "done" =>
        /\ category = C6_Expected
        /\ (arg_company_name = JoinWords(<<Acme, <<"S", "a", "a", "S">>,
                                           <<"P", "l", "a", "t", "f", "o", "r", "m">> >>)
            /\ arg_content = <<>>) => category = "SaaS"
        /\ (arg_company_name = Acme /\ arg_content = <<>>) => category = "Other"

\* two categories share the largest positive number of hits and the first won
C6_Witness ==
    /\ pc = "done"
    /\ \E c, d \in 1..Len(category_keywords) :
          /\ c < d
          /\ C6_Hits(c) > 0
          /\ C6_Hits(c) = C6_Hits(d)
          /\ \A e \in 1..Len(category_keywords) : C6_Hits(e) <= C6_Hits(c)
          /\ category = category_keywords[c][1]

---------------------------------------------------------------------------
\* the rows of the frame that have a price
C7_Priced == SelectSeq(arg_data.rows, LAMBDA r : r.price # NoPrice)

\* value < Q1 - 1.5*IQR or value > Q3 + 1.5*IQR, the quartiles taken times 4
C7_OutsideFences(v, Q1x4, Q3x4) ==
    \/ 8 * v < 2 * Q1x4 - 3 * (Q3x4 - Q1x4)
    \/ 8 * v > 2 * Q3x4 + 3 * (Q3x4 - Q1x4)

\* C7: with method 'iqr' and at least 4 priced records the result is exactly
\* the priced records below Q1 - 1.5*IQR or above Q3 + 1.5*IQR; for the
\* prices [10, 10, 10, 10, 1000] it is exactly the record priced 1000
C7_IqrFences ==
    (pc = "done" /\ arg_method = "iqr" /\ "price" \in arg_data.columns
     /\ Len(C7_Priced) >= MinOutlierRows) =>
        LET prices == [i \in 1..Len(C7_Priced) |-> C7_Priced[i].price]
            Q1x4 == Quantile4(prices, 1)
            Q3x4 == Quantile4(prices, 3)
        IN /\ outliers.columns = arg_data.columns
           /\ outliers.rows =
                SelectSeq(C7_Priced, LAMBDA r : C7_OutsideFences(r.price, Q1x4, Q3x4))
           /\ prices = <<10, 10, 10, 10, 1000>> => outliers.rows = <<C7_Priced[5]>>

C7_Witness ==
    /\ pc = "done"
    /\ arg_method = "iqr"
    /\ "price" \in arg_data.columns
    /\ [i \in 1..Len(arg_data.rows) |-> arg_data.rows[i].price] = <<10, 10, 10, 10, 1000>>
    /\ Len(outliers.rows) = 1
    /\ outliers.rows[1].price = 1000

---------------------------------------------------------------------------
\* C8: detect_outliers returns an empty result whenever fewer than 4 records
\* have a value in the chosen column, for the methods 'iqr' and 'zscore', and
\* likewise for an empty collection or a missing column
C8_FewRecordsEmpty ==
    (pc = "done" /\ arg_method \in {"iqr", "zscore"}
     /\ (\/ arg_data.rows = <<>>
         \/ arg_column \notin arg_data.columns
         \/ Cardinality({i \in 1..Len(arg_data.rows) : arg_data.rows[i][arg_column] # NoPrice})
               < 4)) =>
        outliers = EmptyFrame

\* three priced records among five, one of them far from the others
C8_Witness ==
    /\ pc = "done"
    /\ arg_method = "zscore"
    /\ arg_column \in arg_data.columns
    /\ Len(arg_data.rows) = 5
    /\ Cardinality({i \in 1..Len(arg_data.rows) : arg_data.rows[i].price # NoPrice}) = 3
    /\ \E i, j \in 1..Len(arg_data.rows) :
          arg_data.rows[i].price = 10 /\ arg_data.rows[j].price = 1000
    /\ outliers = EmptyFrame

---------------------------------------------------------------------------
\* sum over the companies of (records of the company)^2: the number of pairs
\* of records of the same company
C9_SameCompanyPairs ==
    Cardinality({p \in (1..Len(metrics_data.rows)) \X (1..Len(metrics_data.rows)) :
                    metrics_data.rows[p[1]].company = metrics_data.rows[p[2]].company})

\* C9: the concentration score is the sum over companies of (records of the
\* company / total records)^2 times 10000, "Highly Concentrated" above 2500,
\* "Moderately Concentrated" above 1500, "Competitive" otherwise; with one
\* company it is 10000 and "Highly Concentrated"
C9_ConcentrationScore ==
    (pc = "done" /\ metrics_data.rows # <<>>) =>
        LET mc == metrics.market_concentration
            total == Len(metrics_data.rows)
        IN /\ mc.present
           /\ mc.hhi_num * total * total = 10000 * C9_SameCompanyPairs * mc.hhi_den
           /\ mc.interpretation =
                 (IF 10000 * C9_SameCompanyPairs > 2500 * total * total
                  THEN "Highly Concentrated"
                  ELSE IF 10000 * C9_SameCompanyPairs > 1500 * total * total
                  THEN "Moderately Concentrated"
                  ELSE "Competitive")
           /\ (\A i \in 1..total : metrics_data.rows[i].company = metrics_data.rows[1].company)
                 => (mc.hhi_num = 10000 * mc.hhi_den
                     /\ mc.interpretation = "Highly Concentrated")

\* four companies of one record each: the score is exactly 2500
C9_Witness ==
    /\ pc = "done"
    /\ Len(metrics_data.rows) = 4
    /\ C9_SameCompanyPairs = 4
    /\ metrics.market_concentration.hhi_num = 2500 * metrics.market_concentration.hhi_den
    /\ metrics.market_concentration.interpretation = "Moderately Concentrated"

---------------------------------------------------------------------------
\* the prices 100, 105, 110, 115, 120 on five consecutive days, one a day
C10_FiveDayPriceSeries ==
    /\ Len(metrics_data.rows) = 5
    /\ \A i \in 1..5 : /\ metrics_data.rows[i].price = 100 + 5 * (i - 1)
                       /\ metrics_data.rows[i].last_updated = i

\* C10 as stated: for that series the trend has slope > 0.1 and is "Increasing"
C10_PriceSeriesIncreasing ==
    (pc = "done" /\ C10_FiveDayPriceSeries) =>
        /\ metrics.activity_trend.present
        /\ 10 * metrics.activity_trend.slope_num > metrics.activity_trend.slope_den
        /\ metrics.activity_trend.interpretation = "Increasing"

\* C10: for the price series [100, 105, 110, 115, 120] over 5 consecutive
\* days, one record per day, the trend is fitted to the number of records
\* per day: its slope is 0 and it is classified "Stable"
C10_PriceSeriesStable ==
    (pc = "done" /\ C10_FiveDayPriceSeries) =>
        /\ metrics.activity_trend.present
        /\ metrics.activity_trend.slope_num = 0
        /\ metrics.activity_trend.interpretation = "Stable"

C10_Witness ==
    /\ pc = "done"
    /\ C10_FiveDayPriceSeries
    /\ metrics.activity_trend.present
    /\ metrics.activity_trend.interpretation = "Stable"

---------------------------------------------------------------------------
\* the distinct dates of the frame
C11_Dates == {metrics_data.rows[i].last_updated : i \in 1..Len(metrics_data.rows)}

\* the index of a date among the distinct dates, from 0
C11_X(d) == Cardinality({e \in C11_Dates : e < d})

\* the number of records of a date
C11_Y(d) == Cardinality({i \in 1..Len(metrics_data.rows) : metrics_data.rows[i].last_updated = d})

\* with n dates: n^2 * sum((x - mean x) * (y - mean y)) and
\* n^2 * sum((x - mean x)^2); their quotient is the least-squares slope
C11_Covariance ==
    LET n == Cardinality(C11_Dates)
        Sx == SumOver([d \in C11_Dates |-> C11_X(d)], C11_Dates)
        Sy == SumOver([d \in C11_Dates |-> C11_Y(d)], C11_Dates)
    IN SumOver([d \in C11_Dates |-> (n * C11_X(d) - Sx) * (n * C11_Y(d) - Sy)], C11_Dates)

C11_Variance ==
    LET n == Cardinality(C11_Dates)
        Sx == SumOver([d \in C11_Dates |-> C11_X(d)], C11_Dates)
    IN SumOver([d \in C11_Dates |-> (n * C11_X(d) - Sx) * (n * C11_X(d) - Sx)], C11_Dates)

\* C11: the activity trend is the least-squares slope of the records per
\* date against the index 0..n-1 of the distinct dates, "Increasing" above
\* 0.1, "Decreasing" below -0.1, "Stable" otherwise; with fewer than 2
\* distinct dates no trend is reported
C11_ActivityTrendSlope ==
    pc = "done" =>
        LET at == metrics.activity_trend
        IN IF Cardinality(C11_Dates) < 2 THEN ~at.present
           ELSE /\ at.present
                /\ at.slope_den > 0
                /\ at.slope_num * C11_Variance = C11_Covariance * at.slope_den
                /\ at.interpretation =
                      (IF 10 * C11_Covariance > C11_Variance THEN "Increasing"
                       ELSE IF 10 * C11_Covariance < -C11_Variance THEN "Decreasing"
                       ELSE "Stable")

\* a slope of exactly 0.1 is "Stable"
C11_Witness ==
    /\ pc = "done"
    /\ metrics.activity_trend.present
    /\ 10 * metrics.activity_trend.slope_num = metrics.activity_trend.slope_den
    /\ metrics.activity_trend.interpretation = "Stable"

\* several records, all of one date: no trend
C11_WitnessOneDate ==
    /\ pc = "done"
    /\ Len(metrics_data.rows) > 1
    /\ Cardinality(C11_Dates) = 1
    /\ ~metrics.activity_trend.present

---------------------------------------------------------------------------
\* the prices of the records that have one
C12_Prices ==
    LET priced == SelectSeq(metrics_data.rows, LAMBDA r : r.price # NoPrice)
    IN [i \in 1..Len(priced) |-> priced[i].price]

\* with n prices of sum S: sum((n*x - S)^2) = n^2 * (n-1) * std^2, and
\* (std/mean)^2 = C12_Deviation / ((n-1) * S^2)
C12_Deviation ==
    LET n == Len(C12_Prices)
        S == SumSeq(C12_Prices)
    IN SumSeq([i \in 1..n |-> (n * C12_Prices[i] - S) * (n * C12_Prices[i] - S)])

C12_Class ==
    LET n == Len(C12_Prices)
        S == SumSeq(C12_Prices)
    IN IF 4 * C12_Deviation > (n - 1) * S * S THEN "High Dispersion"
       ELSE IF 25 * C12_Deviation > (n - 1) * S * S THEN "Moderate Dispersion"
       ELSE "Low Dispersion"

\* C12: a price dispersion is reported only when at least 2 records have a
\* price and the mean price is not zero; when reported it is std/mean,
\* "High" above 0.5, "Moderate" above 0.2, "Low" otherwise
C12_DispersionOnlyWithMean ==
    pc = "done" =>
        LET pd == metrics.price_dispersion
            n == Len(C12_Prices)
            S == SumSeq(C12_Prices)
        IN /\ pd.present <=> (n >= 2 /\ S # 0)
           /\ pd.present =>
                 /\ ~pd.cv_is_nan
                 /\ pd.cv2_num = C12_Deviation /\ pd.cv2_den = (n - 1) * S * S
                 /\ pd.interpretation = C12_Class

\* the part of C12 for a mean that is not zero
C12_DispersionNonZeroMean ==
    (pc = "done" /\ SumSeq(C12_Prices) # 0) =>
        LET pd == metrics.price_dispersion
            n == Len(C12_Prices)
            S == SumSeq(C12_Prices)
        IN /\ pd.present <=> n >= 2
           /\ pd.present =>
                 /\ ~pd.cv_is_nan
                 /\ pd.cv2_num = C12_Deviation /\ pd.cv2_den = (n - 1) * S * S
                 /\ pd.interpretation = C12_Class

\* two or more prices, all zero: a dispersion is reported, its value NaN
C12_ZeroMeanReported ==
    /\ pc = "done"
    /\ Len(C12_Prices) >= 2
    /\ SumSeq(C12_Prices) = 0
    /\ metrics.price_dispersion.present
    /\ metrics.price_dispersion.cv_is_nan
    /\ metrics.price_dispersion.interpretation = "Low Dispersion"

---------------------------------------------------------------------------
\* the number of records of the frame that have a price
C13_Priced ==
    Cardinality({i \in 1..Len(stats_data.rows) : stats_data.rows[i].price # NoPrice})

\* C13: on an empty collection generate_summary_stats returns a summary with
\* every count zero and no price_stats; on any collection price_stats is
\* None exactly when no record has a price, and otherwise its count is the
\* number of priced records
C13_SummaryOfInsufficientData ==
    pc \in {"once", "twice"} =>
        /\ stats_data.rows = <<>> =>
              /\ stats.total_records = 0
              /\ stats.unique_companies = 0
              /\ stats.recent_activity = 0
              /\ DOMAIN stats.category_distribution = {}
              /\ ~stats.price_stats.present
        /\ ~stats.price_stats.present <=> C13_Priced = 0
        /\ stats.price_stats.present => stats.price_stats.count = C13_Priced

\* two records, one of them priced
C13_Witness ==
    /\ pc = "once"
    /\ Len(stats_data.rows) = 2
    /\ C13_Priced = 1
    /\ stats.price_stats.present
    /\ stats.price_stats.count = 1

\* the empty collection
C13_WitnessEmpty ==
    /\ pc = "once"
    /\ stats_data.rows = <<>>
    /\ stats = EmptySummary

---------------------------------------------------------------------------
\* C14: two calls of generate_summary_stats, and of
\* calculate_market_metrics, on the same collection return the same
\* summary, whatever happens between the calls
C14_SameInputSameSummary ==
    pc = "twice" => (stats = stats_prev /\ market = market_prev)

\* what does hold: calculate_market_metrics returns the same, and the two
\* summaries differ in recent_activity at most
C14_SameExceptRecentActivity ==
    pc = "twice" =>
        /\ market = market_prev
        /\ [stats EXCEPT !.recent_activity = 0] = [stats_prev EXCEPT !.recent_activity = 0]

\* the same collection summarised on two days: a record counted as recent
\* by the first call and not by the second
C14_RecentActivityDiffers ==
    /\ pc = "twice"
    /\ stats_prev.recent_activity > stats.recent_activity

---------------------------------------------------------------------------
\* the matches of the three patterns, pattern by pattern, each stripped of
\* surrounding whitespace, those of more than 2 characters
C15_Matches ==
    LET found(k) ==
            LET ms == findall(product_patterns[k], products_content)
            IN SelectSeq([i \in 1..Len(ms) |-> Strip(ms[i])], LAMBDA m : Len(m) > 2)
    IN found(1) \o found(2) \o found(3)

\* C15: the returned list has no duplicate and at most 5 entries, in
\* first-seen order: each entry is the first match not among the entries
\* before it, and a match is left out only once 5 entries are there
C15_DedupedFirstFive ==
    pc = "done" =>
        LET matches == C15_Matches
        IN /\ Len(products) <= 5
           /\ \A i, j \in 1..Len(products) : i # j => products[i] # products[j]
           /\ \A i \in 1..Len(products) :
                 \E k \in 1..Len(matches) :
                    /\ matches[k] = products[i]
                    /\ \A h \in 1..(k - 1) : \E j \in 1..(i - 1) : products[j] = matches[h]
           /\ Len(products) < 5 => Range(matches) \subseteq Range(products)

\* more than 5 distinct matches, one of them found twice
C15_Witness ==
    /\ pc = "done"
    /\ LET matches == C15_Matches
       IN /\ Cardinality(Range(matches)) > 5
          /\ Len(matches) > Cardinality(Range(matches))
    /\ Len(products) = 5

---------------------------------------------------------------------------
\* the platforms of known_prices that the lower-cased company name contains
C16_Keys ==
    {k \in 1..Len(known_prices) : Contains(lower(crm_company_name), known_prices[k][1])}

\* the price patterns that find something in the lower-cased content
C16_Patterns ==
    {k \in 1..Len(entry_price_patterns) :
        findall(entry_price_patterns[k], lower(crm_data[1].raw_content)) # <<>>}

\* C16: when the company name contains a key of the table, the entry price is
\* the price string of the first such key of the table, whatever the content
\* says; with no key, it is "$" + the first match of the first pattern that
\* matches + "/user/month"; with no key and no matching pattern, it is "N/A"
C16_TableBeforePatterns ==
    (pc = "done" /\ crm_data # None) =>
        LET keys == C16_Keys
            entry_price == crm_data[1].Entry_Price
            content_lower == lower(crm_data[1].raw_content)
            found(k) == findall(entry_price_patterns[k], content_lower)
            patterns == 1..Len(entry_price_patterns)
        IN /\ keys # {} =>
                \E k \in keys : /\ \A h \in keys : k <= h
                                /\ entry_price = known_prices[k][2]
           /\ keys = {} =>
                \/ \E k \in patterns :
                      LET matches == found(k)
                      IN /\ matches # <<>>
                         /\ \A h \in 1..(k - 1) : found(h) = <<>>
                         /\ entry_price = <<"$">> \o matches[1]
                                           \o <<"/", "u", "s", "e", "r", "/", "m", "o", "n", "t", "h">>
                \/ /\ \A k \in patterns : found(k) = <<>>
                   /\ entry_price = <<"N", "/", "A">>

\* a company name with two keys of the table, on a page that states a price
C16_Witness ==
    /\ pc = "done" /\ crm_data # None
    /\ Cardinality(C16_Keys) = 2
    /\ C16_Patterns # {}
    /\ crm_data[1].Entry_Price = <<"$", "2", "5", "/", "u", "s", "e", "r", "/", "m", "o", "n", "t", "h">>

\* no key, and a price on the page
C16_WitnessPattern ==
    /\ pc = "done" /\ crm_data # None
    /\ C16_Keys = {}
    /\ crm_data[1].Entry_Price = <<"$", "2", "5", ".", "5", "0", "/", "u", "s", "e", "r", "/", "m", "o", "n", "t", "h">>

\* no key and no price
C16_WitnessNotAvailable ==
    /\ pc = "done" /\ crm_data # None
    /\ C16_Keys = {}
    /\ crm_data[1].Entry_Price = <<"N", "/", "A">>

---------------------------------------------------------------------------
\* the keywords of a list that occur in the lower-cased content, as positions
C17_Found(keywords) ==
    {k \in 1..Len(keywords) : Contains(lower(crm_data[1].raw_content), keywords[k])}

\* the first cap of the keywords found, in the order of the list, each word
\* of a keyword capitalised, joined by ", "
C17_Joined(keywords, cap) ==
    LET found == C17_Found(keywords)
        nth(i) == CHOOSE k \in found : Cardinality({h \in found : h < k}) = i - 1
        n == IF Cardinality(found) < cap THEN Cardinality(found) ELSE cap
    IN JoinComma([i \in 1..n |-> title(keywords[nth(i)])])

C17_WitnessFeatures ==
    /\ pc = "done" /\ crm_data # None
    /\ C16_Keys = {}
    /\ Cardinality(C17_Found(feature_keywords)) > 4
    /\ crm_data[1].Notable_Features = <<"L", "e", "a", "d", ",", " ", "C", "o", "n", "t", "a", "c", "t", ",", " ", "P", "i", "p", "e", "l", "i", "n", "e", ",", " ", "A", "u", "t", "o", "m", "a", "t", "i", "o", "n">>

\* no key and no keyword: the three defaults
C17_WitnessDefaults ==
    /\ pc = "done" /\ crm_data # None
    /\ C16_Keys = {}
    /\ crm_data[1].AI_Automation = <<"B", "a", "s", "i", "c", " ", "A", "u", "t", "o", "m", "a", "t", "i", "o", "n">>
    /\ crm_data[1].Notable_Features = <<"N", "/", "A">>
    /\ crm_data[1].Target_Market = <<"G", "e", "n", "e", "r", "a", "l", " ", "B", "u", "s", "i", "n", "e", "s", "s">>

---------------------------------------------------------------------------
\* C18: a call of the store that returns False leaves the collection held in
\* memory exactly as it was before the call
C18_FalseLeavesCollection ==
    [][result' = FALSE => competitor_data' = competitor_data]_vars

\* what does hold: a call that returns False and changes the collection is a
\* clear_all_data whose os.remove failed, and it leaves the collection empty
C18_FalseOnlyAfterFailedRemove ==
    [][(result' = FALSE /\ competitor_data' # competitor_data) =>
          (competitor_data' = <<>> /\ data_file.exists /\ data_file' = data_file)]_vars

\* clear_all_data has returned False on a store that held records: the
\* records are gone and the file is still there
C18_ClearedAndFalse ==
    /\ result = FALSE
    /\ competitor_data = <<>>
    /\ data_file.exists
    /\ now > 0

---------------------------------------------------------------------------
\* C19: once a call of the store has returned True, the file reloads to the
\* collection held in memory (no file: the empty collection)
C19_FileMatchesMemory ==
    result = TRUE => _load_data(data_file) = competitor_data

\* what does hold: the file is missing or holds no record, whatever the
\* collection in memory
C19_FileNeverHoldsRecords ==
    _load_data(data_file) = <<>>

\* a call has returned True, records are in memory and none in the file
C19_RecordsOnlyInMemory ==
    /\ result = TRUE
    /\ competitor_data # <<>>
    /\ _load_data(data_file) = <<>>

---------------------------------------------------------------------------
\* C20: a collection saved with _save_data and loaded again with _load_data
\* is the collection that was saved
C20_SaveLoadRoundTrip ==
    _load_data(_save_data(competitor_data, data_file)) = competitor_data

\* what does hold: the round trip gives the collection back exactly when it
\* is empty
C20_RoundTripOnlyOfEmpty ==
    (_load_data(_save_data(competitor_data, data_file)) = competitor_data)
        <=> (competitor_data = <<>>)

\* a collection of two records, saved over a missing file: there is still no
\* file
C20_SavedNothing ==
    /\ Len(competitor_data) = 2
    /\ ~data_file.exists
    /\ _save_data(competitor_data, data_file) = NoFile

---------------------------------------------------------------------------
\* the rows of the other companies before the last call, in their order
C21_Others ==
    SelectSeq(data_before, LAMBDA r : r.company # last_call.company)

\* C21: after update_competitor(c) has returned True the collection is the
\* rows the other companies had before the call, unchanged and in their
\* order, followed by at least one row of c; every row of c is of the scrape
\* of this call, and every row c had before is of an earlier scrape
C21_UpdateReplacesCompany ==
    (last_call.op = "update_competitor" /\ result = TRUE) =>
        LET others == C21_Others
            n == Len(others)
        IN /\ Len(competitor_data) > n
           /\ SubSeq(competitor_data, 1, n) = others
           /\ \A i \in (n + 1)..Len(competitor_data) :
                 /\ competitor_data[i].company = last_call.company
                 /\ competitor_data[i].last_updated = now - 1
           /\ \A i \in 1..Len(data_before) :
                 data_before[i].company = last_call.company =>
                    /\ data_before[i].last_updated < now - 1
                    /\ \A j \in 1..Len(competitor_data) : competitor_data[j] # data_before[i]

\* update_competitor has returned True on a collection in which a row of the
\* company came before a row of another company
C21_Witness ==
    /\ last_call.op = "update_competitor" /\ result = TRUE
    /\ \E i, j \in 1..Len(data_before) :
          /\ i < j
          /\ data_before[i].company = last_call.company
          /\ data_before[j].company # last_call.company
    /\ C21_Others # <<>>

---------------------------------------------------------------------------
C22_AdmittedWithoutTimestamp ==
    /\ last_call.op = "add_competitor_data" /\ result = TRUE
    /\ Len(competitor_data) > Len(data_before)
    /\ competitor_data[Len(competitor_data)].company = Acme
    /\ competitor_data[Len(competitor_data)].last_updated = NoTimestamp

\* add_competitor_data has returned True for a dictionary without 'company'
C22_AdmittedWithoutCompany ==
    /\ last_call.op = "add_competitor_data" /\ result = TRUE
    /\ Len(competitor_data) > Len(data_before)
    /\ competitor_data[Len(competitor_data)].company = Missing

\* what does hold: a dictionary without 'company' is admitted only with a
\* product and without content
C22_WithoutCompanyOnlyWithProduct ==
    \A i \in 1..Len(competitor_data) :
        competitor_data[i].company = Missing =>
            /\ competitor_data[i].product_name # ServiceSuffix
            /\ competitor_data[i].content = <<>>

---------------------------------------------------------------------------
\* the competitors gone through so far whose fetch gave a page, in order
C23_Fetched ==
    SelectSeq([k \in 1..batch_i |-> k], LAMBDA k : batch_fetched[k] # <<>>)

\* C23: whichever fetches fail, the CRM analysis loop has one row for each
\* competitor it has been through, in input order: the extracted data of
\* its page, or the fallback data when the fetch failed; the rows of
\* scrape_multiple_competitors are those of the competitors whose fetch gave
\* a page, in input order; and both loops end after the last competitor
C23_BatchGoesThroughAll ==
    /\ pc \in {"analyze", "analyzed"} =>
          /\ Len(batch_rows) = batch_i
          /\ \A k \in 1..batch_i :
                /\ batch_rows[k].Platform = batch[k]
                /\ batch_fetched[k] = <<>> => batch_rows[k] = FallbackData(batch[k])
                /\ batch_fetched[k] # <<>> =>
                      /\ batch_rows[k].raw_content = batch_fetched[k]
                      /\ <<batch_rows[k]>> = extract_crm_data(batch_fetched[k], batch[k])
    /\ pc \in {"scrape", "scraped"} =>
          LET fetched == C23_Fetched
          IN /\ Len(batch_rows) = Len(fetched)
             /\ \A j \in 1..Len(fetched) :
                   /\ batch_rows[j].company = batch[fetched[j]]
                   /\ batch_rows[j].content = batch_fetched[fetched[j]]
    /\ pc \in {"analyzed", "scraped"} => batch_i = Len(batch)

\* the CRM analysis loop has ended on three competitors, the fetch of the
\* second of them failed and the third has its extracted row
C23_Witness ==
    /\ pc = "analyzed"
    /\ Len(batch) = 3
    /\ batch_fetched[1] # <<>> /\ batch_fetched[2] = <<>> /\ batch_fetched[3] # <<>>
    /\ Len(batch_rows) = 3
    /\ batch_rows[2] = FallbackData(batch[2])
    /\ batch_rows[3].raw_content # <<>>

\* scrape_multiple_competitors has ended on three competitors, the fetch of
\* the first of them failed
C23_WitnessScrape ==
    /\ pc = "scraped"
    /\ Len(batch) = 3
    /\ batch_fetched[1] = <<>> /\ batch_fetched[2] # <<>> /\ batch_fetched[3] # <<>>
    /\ Len(batch_rows) = 2

---------------------------------------------------------------------------
C24_RaisesOnlyOnNone ==
    pc = "extracted" =>
        /\ crm_data[1].Entry_Price = AttributeError <=> crm_text = NullContent
        /\ crm_data[1].Notable_Features = AttributeError <=> crm_text = NullContent
        /\ crm_data[1].AI_Automation = AttributeError <=> crm_text = NullContent
        /\ crm_data[1].Target_Market # AttributeError

\* the content None with a company name of the vendor table: the price, the
\* features and the AI capabilities raise, the target market is returned
C24_NoneRaises ==
    /\ pc = "extracted"
    /\ crm_text = NullContent
    /\ C16_Keys # {}
    /\ crm_data[1].Entry_Price = AttributeError
    /\ crm_data[1].Target_Market # <<"G", "e", "n", "e", "r", "a", "l", " ", "B", "u", "s", "i", "n", "e", "s", "s">>

---------------------------------------------------------------------------
(* C25: whatever the fetcher, the summarizer or the file system does, no   *)
(* exception leaves a call of the record store: add_competitor_data,       *)
(* update_competitor, remove_competitor, refresh_all_data and              *)
(* clear_all_data return True or False, and the load at start-up returns a *)
(* collection, the empty one when the file could not be read.              *)
C25_CollaboratorFailureContained ==
    /\ ~raised
    /\ last_call.op \notin {"none", "_load_data"} => result \in BOOLEAN
    /\ (last_call.op = "_load_data" /\ fault = "read" /\ data_file.exists)
           => competitor_data = <<>>

\* the scraper raised while a company that has rows was updated
C25_Witness ==
    /\ last_call.op = "update_competitor"
    /\ fault = "fetch"
    /\ RowsOf(data_before, last_call.company) # <<>>
    /\ result = FALSE

\* the file with a record could not be read at start-up
C25_WitnessLoad ==
    /\ last_call.op = "_load_data"
    /\ fault = "read"
    /\ data_file.records # <<>>
    /\ competitor_data = <<>>

\* the file could not be written while rows without time stamp were left
C25_WitnessSave ==
    /\ last_call.op = "remove_competitor"
    /\ fault = "write"
    /\ competitor_data # <<>>
    /\ ~HasDatetimeColumn(competitor_data)
    /\ result = TRUE

---------------------------------------------------------------------------
(* C26: after add_competitor_data returned True, the collection is what it *)
(* was before followed by the new records: one for each entry of the       *)
(* input's products list, named after it, when the list is not empty, and  *)
(* one named "<company> Service" otherwise; no stored record has the key   *)
(* products.  The input is a scrape, whose products list is what           *)
(* _extract_products finds in its content.                                 *)
C26_Added == SubSeq(competitor_data, Len(data_before) + 1, Len(competitor_data))

C26_AddAppendsOnePerProduct ==
    (last_call.op = "add_competitor_data" /\ result) =>
        /\ Len(competitor_data) > Len(data_before)
        /\ SubSeq(competitor_data, 1, Len(data_before)) = data_before
        /\ LET added == C26_Added
               input_products == _extract_products(added[1].content)
           IN /\ \A i \in 1..Len(added) : added[i].company = last_call.company
              /\ IF input_products # <<>>
                 THEN /\ Len(added) = Len(input_products)
                      /\ \A i \in 1..Len(added) : added[i].product_name = input_products[i]
                 ELSE /\ Len(added) = 1
                      /\ added[1].product_name = last_call.company \o ServiceSuffix
        /\ \A i \in 1..Len(competitor_data) : "products" \notin DOMAIN competitor_data[i]

\* two products were found on the page and added after the rows of another
\* company
C26_Witness ==
    /\ last_call.op = "add_competitor_data"
    /\ result
    /\ data_before # <<>>
    /\ Len(C26_Added) >= 2
    /\ C26_Added[1].product_name # C26_Added[2].product_name

\* no product was found: the one record "<company> Service"
C26_WitnessService ==
    /\ last_call.op = "add_competitor_data"
    /\ result
    /\ data_before # <<>>
    /\ C26_Added = <<competitor_data[Len(competitor_data)]>>
    /\ competitor_data[Len(competitor_data)].product_name = last_call.company \o ServiceSuffix

---------------------------------------------------------------------------
(* C27: after remove_competitor(c) returned True the collection is what it *)
(* was before without the records of c, the others unchanged and in their  *)
(* order; after clear_all_data returned True the collection is empty and   *)
(* there is no file; remove_competitor on the empty collection returns     *)
(* False and leaves it empty.                                              *)
C27_RemoveAndClear ==
    /\ (last_call.op = "remove_competitor" /\ result) =>
          /\ \A i \in 1..Len(competitor_data) : competitor_data[i].company # last_call.company
          /\ competitor_data = SelectSeq(data_before, LAMBDA r : r.company # last_call.company)
    /\ (last_call.op = "clear_all_data" /\ result) =>
          /\ competitor_data = <<>>
          /\ ~data_file.exists
    /\ (last_call.op = "remove_competitor" /\ data_before = <<>>) =>
          /\ ~result
          /\ competitor_data = <<>>

\* a company was removed from between the records of another
C27_Witness ==
    /\ last_call.op = "remove_competitor"
    /\ result
    /\ Len(data_before) = 3
    /\ data_before[2].company = last_call.company
    /\ Len(competitor_data) = 2

\* a collection with records and its file were cleared
C27_WitnessClear ==
    /\ last_call.op = "clear_all_data"
    /\ result
    /\ data_before # <<>>
    /\ competitor_data = <<>>

\* remove_competitor was called on the empty collection
C27_WitnessEmpty ==
    /\ last_call.op = "remove_competitor"
    /\ data_before = <<>>
    /\ ~result

---------------------------------------------------------------------------
(* C28: after refresh_all_data returned, every company that had records    *)
(* before the call still has records in the collection, also when its      *)
(* re-scrape failed.                                                       *)
C28_CompaniesOf(rows) == {rows[i].company : i \in 1..Len(rows)}

C28_RefreshKeepsCompanies ==
    last_call.op = "refresh_all_data" =>
        C28_CompaniesOf(data_before) \subseteq C28_CompaniesOf(competitor_data)

\* what holds instead: a refresh brings no company in, and the records it
\* leaves are those of the scrapes of this refresh
C28_RefreshOnlyRescraped ==
    (last_call.op = "refresh_all_data" /\ result) =>
        /\ C28_CompaniesOf(competitor_data) \subseteq C28_CompaniesOf(data_before)
        /\ \A i \in 1..Len(competitor_data), j \in 1..Len(data_before) :
              competitor_data[i].last_updated >= data_before[j].last_updated

\* a refresh returned True and left nothing of the company it found
C28_CompanyLost ==
    /\ last_call.op = "refresh_all_data"
    /\ result
    /\ C28_CompaniesOf(data_before) # {}
    /\ competitor_data = <<>>

---------------------------------------------------------------------------
(* C29: clean_text_content is idempotent: cleaning the cleaned text gives  *)
(* the cleaned text again.                                                 *)
C29_Idempotent ==
    pc = "done" => clean_text_content(cleaned) = cleaned

\* what holds instead: the second cleaning gives a text that no further
\* cleaning changes, and the first one does when it left no run of spaces
C29_SecondCleaningIsFixed ==
    pc = "done" =>
        /\ clean_text_content(clean_text_content(clean_text_content(cleaned)))
              = clean_text_content(clean_text_content(cleaned))
        /\ NoSpaceRun(cleaned) => clean_text_content(cleaned) = cleaned

\* a special character next to a space: the first cleaning leaves two
\* spaces, the second one of them
C29_SecondCleaningChanges ==
    /\ pc = "done"
    /\ text = <<"a", " ", "@", "a">>
    /\ cleaned = <<"a", " ", " ", "a">>
    /\ clean_text_content(cleaned) = <<"a", " ", "a">>

---------------------------------------------------------------------------
(* C30: by the method 'zscore' detect_outliers returns no row for a frame  *)
(* with fewer than 9 priced records, whatever the prices; on the prices    *)
(* 10, 10, 10, 10, 1000 it returns none where the method 'iqr' returns the *)
(* record of 1000.                                                         *)
C30_Priced == SelectSeq(arg_data.rows, LAMBDA r : r.price # NoPrice)

C30_ZScoreNeedsNineRecords ==
    pc = "done" =>
        /\ (arg_method = "zscore" /\ Len(C30_Priced) < 9) => outliers.rows = <<>>
        /\ arg_data = PriceFrame(AllColumns, <<10, 10, 10, 10, 1000>>) =>
              IF arg_method = "zscore" THEN outliers.rows = <<>>
              ELSE outliers.rows = <<arg_data.rows[5]>>

\* eight priced records, one of them far from the seven others
C30_Witness ==
    /\ pc = "done"
    /\ arg_method = "zscore"
    /\ Len(C30_Priced) = 8
    /\ Cardinality({i \in 1..8 : C30_Priced[i].price = 1000}) = 1
    /\ outliers.rows = <<>>

\* with a ninth record of the low price the far one is returned
C30_WitnessNine ==
    /\ pc = "done"
    /\ arg_method = "zscore"
    /\ Len(C30_Priced) = 9
    /\ Len(outliers.rows) = 1
    /\ outliers.rows[1].price = 1000

\* the prices 10, 10, 10, 10, 1000 by the method 'iqr'
C30_WitnessIqr ==
    /\ pc = "done"
    /\ arg_method = "iqr"
    /\ arg_data = PriceFrame(AllColumns, <<10, 10, 10, 10, 1000>>)
    /\ outliers.rows = <<arg_data.rows[5]>>

====
